---------------------------- MODULE Spec2Model ----------------------------
(***************************************************************************)
(* A model of ixugo/bytepool: the tiered byte pool (pool.go), the          *)
(* reference-counted Buffer handle (buffer.go), the generic sync.Pool      *)
(* wrapper (p.go), the lock-free statistics ring (RingQueue) and its       *)
(* mutex-guarded variant (LockedRingQueue).                                *)
(*                                                                         *)
(* A byte slice is the record [id, len, cap]: id names the backing array,  *)
(* len and cap are Go's len() and cap().  The nil slice is NilBuf.         *)
(***************************************************************************)
EXTENDS Integers, Sequences, FiniteSets, Bags

\* ------------------------------------------------------------------ bounds

\* Longest size-class list handed to NewPools.
MaxClasses == 2
\* Budget of state-changing pool calls (ring pushes + counted puts + discards).
MaxOps == 3
\* Capacity of the statistics ring in the model (256 in pool.go:77).
RingSize == 2
\* Number of concurrently running goroutines.
NumThreads == 3
\* Most Retain()/Bytes() increments performed in one run.
MaxRetains == 3
\* Most Release() decrements performed in one run.
MaxReleases == 5
\* Most handles one owner creates in a run.
MaxHandles == 3
\* Number of concurrent tasks running Get/Put cycles.
NumTasks == 2
\* Get/Put cycles each task runs.
MaxCycles == 1
\* Most Push calls made on the rings in one run.
MaxPushes == 6
\* Most Push calls made while other goroutines read and clear the ring.
MaxRacePushes == 3
\* Budget of pool calls of a caller that keeps and reuses what it has put back.
MaxRawCalls == 5
\* Most options handed to one NewPools call.
MaxOptions == 2
\* Most Push calls made by the goroutines that wait at the mutex.
MaxFairPushes == 1
\* Budget of counted pool calls made on a pool built with options.
MaxConfigCalls == 2

\* Size classes the constructor's list is drawn from.
ClassVals == {1, 2, 4}

\* ------------------------------------------------------------------ helpers

Range(s) == {s[i] : i \in DOMAIN s}

SetMax(S) == CHOOSE x \in S : \A y \in S : y <= x

SetMin(S) == CHOOSE x \in S : \A y \in S : x <= y

\* Every list of 1..MaxClasses classes: any order, duplicates allowed.
SizeLists == UNION {[1..k -> ClassVals] : k \in 1..MaxClasses}

\* Lengths a caller asks for: non-positive, inside every class, beyond the largest.
Lengths == (-1)..(SetMax(ClassVals) + 1)

\* The nil slice.
NilBuf == [id |-> 0, len |-> 0, cap |-> 0]

\* make([]byte, n) on a fresh backing array.
MakeBuf(newId, n) == [id |-> newId, len |-> n, cap |-> n]

\* ------------------------------------------------------------------ state

VARIABLES
    sizes,           \* BytePool.sizes: the sorted class list
    maxPoolSize,     \* BytePool.maxPoolSize
    pools,           \* BytePool.pools: class -> bag of cached slices (sync.Pool)
    stats,           \* BytePool.stats: class -> [Get, Put]
    discardedCount,  \* BytePool.discardedCount
    totalGet,        \* BytePool.totalGet
    totalPut,        \* BytePool.totalPut
    recentLengths,   \* BytePool.recentLengths: the RingQueue [data, size, writePos]
    nextId,          \* next unused backing-array identity
    held,            \* slices returned by Get that the caller still holds
    call,            \* the last call made: [op, n, buf] (buf: Put's argument)
    ret,             \* what the last call returned (NilBuf when it returns nothing)
    asked,           \* every positive length passed to Get so far, in call order
    bufs,            \* the Buffer handles: sequence of [buf, refCount]
    hist,            \* per handle: [data, retains, decs, puts, emptied] (history)
    refs,            \* refs[t][h]: unreleased references thread t holds on handle h
    pc,              \* pc[t]: where thread t stands inside Release / Bytes
    loc,             \* loc[t]: thread t's locals [h, buf]
    task,            \* task[t]: a Get/Put task's [pc, length, pos, buf, cycles]
    ring,            \* a RingQueue on its own: [data, size, writePos]
    locked,          \* a LockedRingQueue: [data, size, writePos, readPos, count]
    npush,           \* Push calls made on the rings so far
    pushed,          \* the values pushed since the last Clear, in the order of
                     \* their cursor claims
    fifo,            \* the bounded FIFO sequence the rings are compared with
    out,             \* the last ring call and what it returned: [op, a, b]
    rt,              \* rt[t]: goroutine t inside a RingQueue call: [pc, pos, item,
                     \* cur, i, res]; res keeps the last Bytes result
    touched,         \* every slot index a Push or a Bytes call has used
    mu,              \* LockedRingQueue.mu: [writer, readers], the goroutine
                     \* holding the write lock (0: none) and those holding
                     \* the read lock
    popped,          \* the elements successful Pop calls of the goroutines
                     \* returned, in the order of their returns
    config,          \* the NewPools call: [state, sizes, opts, uses], uses
                     \* naming the ring object p.recentLengths points to
    written,         \* backing arrays whose bytes a holder has written since
                     \* they were made or cleared
    got              \* what Get returned to the raw callers, in call order:
                     \* [buf, gets, puts], the totals being those at the call

poolVars == <<sizes, maxPoolSize, pools, stats, discardedCount, totalGet, totalPut,
              recentLengths>>

callerVars == <<nextId, held, call, ret, asked>>

handleVars == <<bufs, hist, refs, pc, loc>>

\* State of the harnesses that the pool's and the handles' callers leave alone.
ringsOnly == <<ring, locked, npush, pushed, fifo, out, rt, touched, mu, popped>>

ringVars == <<ringsOnly, config, written, got>>

otherVars == <<task, ringVars>>

vars == <<poolVars, callerVars, handleVars, otherVars>>

Threads == 1..NumThreads

\* The goroutines of the harnesses that run few of them.
Tasks == 1..NumTasks

\* ------------------------------------------------------------------ RingQueue

\* NewRingQueue: size zeroed slots, writePos 0.
NewRingQueue(size) == [data |-> [i \in 1..size |-> 0], size |-> size, writePos |-> 0]

\* A mutant of RingQueue_Claim: the cursor is read but not advanced.
RingQueue_ClaimLoadOnly(rq) == rq

\* Push, first half: pos := atomic.AddInt64(&writePos, 1) - 1.
RingQueue_Claim(rq) == [rq EXCEPT !.writePos = @ + 1]

\* A mutant of RingQueue_actualPos: the claimed position is used as it is.
RingQueue_actualPosRaw(rq, pos) == pos

\* Push line 33: actualPos := pos % rq.size.
RingQueue_actualPos(rq, pos) == pos % rq.size

\* Push, second half: data[actualPos] = item (slot k of Go is index k+1 here).
RingQueue_Store(rq, pos, item) ==
    [rq EXCEPT !.data[RingQueue_actualPos(rq, pos) + 1] = item]

\* Push as one uninterrupted call.
RingQueue_Push(rq, item) == RingQueue_Store(RingQueue_Claim(rq), rq.writePos, item)

\* A mutant of RingQueue_Bytes: a wrapped ring is read from slot 0 on.
RingQueue_BytesUnrotated(rq) ==
    [i \in 1..(IF rq.writePos <= rq.size THEN rq.writePos ELSE rq.size) |-> rq.data[i]]

\* Bytes lines 47 and 54: the length of the result for the cursor value read.
RingQueue_BytesLen(rq, currentWritePos) ==
    IF currentWritePos <= rq.size THEN currentWritePos ELSE rq.size

\* Bytes lines 49 and 57-62: the slot the i-th element of the result (from 0)
\* is read from.
RingQueue_BytesPos(rq, currentWritePos, i) ==
    IF currentWritePos <= rq.size THEN i
    ELSE LET firstPos == currentWritePos % rq.size IN (firstPos + i) % rq.size

\* Bytes: the snapshot, oldest first.
RingQueue_Bytes(rq) ==
    LET currentWritePos == rq.writePos IN
    IF currentWritePos = 0 THEN <<>>
    ELSE [i \in 1..RingQueue_BytesLen(rq, currentWritePos) |->
             rq.data[RingQueue_BytesPos(rq, currentWritePos, i - 1) + 1]]

\* A mutant of RingQueue_Len: the cursor is returned uncapped.
RingQueue_LenCursor(q) == q.writePos

\* Len: the cursor, capped by the size.
RingQueue_Len(q) == IF q.writePos <= q.size THEN q.writePos ELSE q.size

RingQueue_Cap(q) == q.size

\* A mutant of RingQueue_IsFull: full only when the cursor is at the size.
RingQueue_IsFullExact(q) == q.writePos = q.size

\* IsFull: the cursor has reached the size.
RingQueue_IsFull(q) == q.writePos >= q.size

RingQueue_IsEmpty(q) == q.writePos = 0

\* Clear: atomic.StoreInt64(&writePos, 0); clear(data).
RingQueue_Clear(q) == [q EXCEPT !.writePos = 0, !.data = [i \in 1..q.size |-> 0]]

\* ------------------------------------------------------------------ LockedRingQueue

\* The zero value of sync.RWMutex (the field mu): nobody holds it.
NewRWMutex == [writer |-> 0, readers |-> {}]

\* A mutant of RWMutex_CanLock: the write lock is granted at any time.
RWMutex_CanLockAnytime(m) == TRUE

\* mu.Lock() returns once neither a writer nor a reader holds the mutex.
RWMutex_CanLock(m) == m.writer = 0 /\ m.readers = {}

\* A mutant of RWMutex_CanRLock: the read lock is granted at any time.
RWMutex_CanRLockAnytime(m) == TRUE

\* mu.RLock() returns once no writer holds the mutex.
RWMutex_CanRLock(m) == m.writer = 0

\* NewLockedRingQueue: size zeroed slots, both positions and the count 0.
NewLockedRingQueue(size) ==
    [data |-> [i \in 1..size |-> 0], size |-> size, writePos |-> 0, readPos |-> 0,
     count |-> 0]

\* A mutant of LockedRingQueue_Push: a full queue keeps its read position.
LockedRingQueue_PushKeepsHead(q, item) ==
    [q EXCEPT !.data[q.writePos + 1] = item,
              !.writePos = (q.writePos + 1) % q.size,
              !.count = IF q.count < q.size THEN q.count + 1 ELSE q.count]

\* Push: store at writePos and advance it; count up to size, then advance
\* readPos over the overwritten oldest element.
LockedRingQueue_Push(q, item) ==
    [q EXCEPT !.data[q.writePos + 1] = item,
              !.writePos = (q.writePos + 1) % q.size,
              !.count = IF q.count < q.size THEN q.count + 1 ELSE q.count,
              !.readPos = IF q.count < q.size THEN q.readPos
                          ELSE (q.readPos + 1) % q.size]

\* A mutant of LockedRingQueue_Peek: the newest element is returned.
LockedRingQueue_PeekNewest(q) ==
    IF q.count = 0 THEN [item |-> 0, ok |-> FALSE]
    ELSE [item |-> q.data[((q.writePos + q.size - 1) % q.size) + 1], ok |-> TRUE]

\* Peek lines 77-82: (zero, false) on an empty queue, else the element at
\* readPos.
LockedRingQueue_Peek(q) ==
    IF q.count = 0 THEN [item |-> 0, ok |-> FALSE]
    ELSE [item |-> q.data[q.readPos + 1], ok |-> TRUE]

\* What Pop returns, lines 58-63 and 68: (zero, false) on an empty queue, else
\* item := data[readPos], read before the slot is zeroed.
LockedRingQueue_PopItem(q) ==
    IF q.count = 0 THEN [item |-> 0, ok |-> FALSE]
    ELSE [item |-> q.data[q.readPos + 1], ok |-> TRUE]

\* A mutant of LockedRingQueue_Pop: the count is not decremented.
LockedRingQueue_PopKeepsCount(q) ==
    IF q.count = 0 THEN q
    ELSE [q EXCEPT !.data[q.readPos + 1] = 0,
                   !.readPos = (q.readPos + 1) % q.size]

\* Pop: zero the slot at readPos, advance readPos, count down.
LockedRingQueue_Pop(q) ==
    IF q.count = 0 THEN q
    ELSE [q EXCEPT !.data[q.readPos + 1] = 0,
                   !.readPos = (q.readPos + 1) % q.size,
                   !.count = q.count - 1]

\* Bytes: count elements from readPos on, wrapping.
LockedRingQueue_Bytes(q) ==
    IF q.count = 0 THEN <<>>
    ELSE [i \in 1..q.count |-> q.data[((q.readPos + (i - 1)) % q.size) + 1]]

LockedRingQueue_Len(q) == q.count

LockedRingQueue_Cap(q) == q.size

LockedRingQueue_IsFull(q) == q.count = q.size

LockedRingQueue_IsEmpty(q) == q.count = 0

\* A mutant of LockedRingQueue_Clear: the read position is not reset.
LockedRingQueue_ClearKeepsReadPos(q) ==
    [q EXCEPT !.data = [i \in 1..q.size |-> 0], !.writePos = 0, !.count = 0]

\* Clear: zero every slot, reset both positions and the count.
LockedRingQueue_Clear(q) ==
    [q EXCEPT !.data = [i \in 1..q.size |-> 0], !.writePos = 0, !.readPos = 0,
              !.count = 0]

\* ------------------------------------------------------------------ pool.go

\* slices.Sort, as an insertion sort.
RECURSIVE Insert(_, _)
Insert(x, s) ==
    IF s = <<>> THEN <<x>>
    ELSE IF x <= Head(s) THEN <<x>> \o s
         ELSE <<Head(s)>> \o Insert(x, Tail(s))

RECURSIVE slicesSort(_)
slicesSort(s) == IF s = <<>> THEN <<>> ELSE Insert(Head(s), slicesSort(Tail(s)))

\* A mutant of SortedSizes: the copy is kept in the caller's order.
UnsortedSizes(arg) == arg

\* NewPools lines 83-84: copy(pool.sizes, sizes); slices.Sort(pool.sizes).
SortedSizes(arg) == slicesSort(arg)

\* findBestSize: the first class of the scan that is >= length, else the last.
RECURSIVE findFrom(_, _)
findFrom(length, i) ==
    IF i > Len(sizes) THEN sizes[Len(sizes)]
    ELSE IF sizes[i] >= length THEN sizes[i] ELSE findFrom(length, i + 1)

findBestSize(length) == findFrom(length, 1)

\* A mutant of GetIsNoop: only negative lengths return early.
GetIsNoopNegative(length) == length < 0

\* Get line 124: if length <= 0 { return nil }.
GetIsNoop(length) == length <= 0

\* A mutant of TooLarge: the largest class itself is discarded too.
TooLargeInclusive(n) == n >= maxPoolSize

\* Get line 131 and Put line 169: the request exceeds the largest class.
TooLarge(n) == n > maxPoolSize

\* buf[:n] of Go; a slice beyond the capacity panics (modelled as the value Panic).
Panic == [id |-> -1, len |-> -1, cap |-> -1]

Reslice(buf, n) == IF n <= buf.cap THEN [buf EXCEPT !.len = n] ELSE Panic

\* p.go Pool.Get: sync.Pool hands back any cached item or, finding none
\* (the cache is empty or the items sit with another P or were collected),
\* calls New, which is make([]byte, size) (NewPools lines 89-92).
PoolGetCached(size) == BagToSet(pools[size])

\* A mutant of StatsAfterGet: the class counter is left as it is.
StatsAfterGetUncounted(size) == stats

\* A mutant of StatsAfterGet: the get is counted on the largest class.
StatsAfterGetLargest(size) == [stats EXCEPT ![maxPoolSize].Get = @ + 1]

\* Get line 139: atomic.AddInt64(&p.stats[size].Get, 1).
StatsAfterGet(size) == [stats EXCEPT ![size].Get = @ + 1]

\* A mutant of RecordLength: only requests a class can serve are recorded.
RecordLengthIfServed(length) ==
    IF length > maxPoolSize THEN recentLengths
    ELSE RingQueue_Push(recentLengths, length)

\* The RingQueuer interface, lines 9-12: Push and Bytes of whichever ring the
\* pool points to (the mutex-guarded ring is the one with a count field).
RingQueuer_IsLocked(q) == "count" \in DOMAIN q

RingQueuer_Push(q, item) ==
    IF RingQueuer_IsLocked(q) THEN LockedRingQueue_Push(q, item)
    ELSE RingQueue_Push(q, item)

RingQueuer_Bytes(q) ==
    IF RingQueuer_IsLocked(q) THEN LockedRingQueue_Bytes(q) ELSE RingQueue_Bytes(q)

\* Get line 129: p.recentLengths.Push(length).
RecordLength(length) == RingQueuer_Push(recentLengths, length)

\* Get, as one uninterrupted call; the returned slice is ret'.
Get(length) ==
    IF GetIsNoop(length)
    THEN /\ ret' = NilBuf
         /\ UNCHANGED <<poolVars, nextId>>
    ELSE /\ recentLengths' = RecordLength(length)
         /\ IF TooLarge(length)
            THEN /\ discardedCount' = discardedCount + 1
                 /\ ret' = MakeBuf(nextId, length)
                 /\ nextId' = nextId + 1
                 /\ UNCHANGED <<pools, stats, totalGet, totalPut>>
            ELSE LET size == findBestSize(length) IN
                 IF size \in DOMAIN pools
                 THEN /\ stats' = StatsAfterGet(size)
                      /\ totalGet' = totalGet + 1
                      /\ \/ \E b \in PoolGetCached(size) :
                               /\ pools' = [pools EXCEPT ![size] = @ (-) SetToBag({b})]
                               /\ ret' = Reslice(b, length)
                               /\ nextId' = nextId
                         \/ /\ ret' = Reslice(MakeBuf(nextId, size), length)
                            /\ nextId' = nextId + 1
                            /\ pools' = pools
                      /\ UNCHANGED <<discardedCount, totalPut>>
                 ELSE /\ ret' = MakeBuf(nextId, length)
                      /\ nextId' = nextId + 1
                      /\ UNCHANGED <<pools, stats, totalGet, totalPut, discardedCount>>
         /\ UNCHANGED <<sizes, maxPoolSize>>

\* A mutant of PutView: the slice is cached with the length the caller left.
PutViewAsIs(buf, capacity) == buf

\* Put line 180: buf = buf[:capacity].
PutView(buf, capacity) == Reslice(buf, capacity)

\* A mutant of PutDiscards: an oversized Put is counted as a valid put.
PutDiscardsCounted(capacity) ==
    /\ totalPut' = totalPut + 1
    /\ UNCHANGED <<sizes, maxPoolSize, pools, stats, discardedCount, totalGet,
                   recentLengths>>

\* Put lines 170-171: the oversized slice is only counted as discarded.
PutDiscards(capacity) ==
    /\ discardedCount' = discardedCount + 1
    /\ UNCHANGED <<sizes, maxPoolSize, pools, stats, totalGet, totalPut,
                   recentLengths>>

\* A mutant of PutFindsNoClass: a slice of no class is counted as discarded.
PutFindsNoClassCounted ==
    /\ discardedCount' = discardedCount + 1
    /\ UNCHANGED <<sizes, maxPoolSize, pools, stats, totalGet, totalPut,
                   recentLengths>>

\* Put lines 174-183: p.pools[capacity] has no entry, the slice is dropped.
PutFindsNoClass == UNCHANGED poolVars

\* A mutant of PutCaches: a slice the cache already holds is not taken again.
PutCachesUnlessCached(buf, capacity) ==
    IF PutView(buf, capacity) \in BagToSet(pools[capacity])
    THEN UNCHANGED poolVars
    ELSE /\ stats' = [stats EXCEPT ![capacity].Put = @ + 1]
         /\ totalPut' = totalPut + 1
         /\ pools' = [pools EXCEPT
                        ![capacity] = @ (+) SetToBag({PutView(buf, capacity)})]
         /\ UNCHANGED <<sizes, maxPoolSize, discardedCount, totalGet, recentLengths>>

\* Put lines 174-182: both counters are raised, the slice is resliced and
\* handed to the class cache; nothing asks where the slice came from.
PutCaches(buf, capacity) ==
    /\ stats' = [stats EXCEPT ![capacity].Put = @ + 1]
    /\ totalPut' = totalPut + 1
    /\ pools' = [pools EXCEPT
                   ![capacity] = @ (+) SetToBag({PutView(buf, capacity)})]
    /\ UNCHANGED <<sizes, maxPoolSize, discardedCount, totalGet, recentLengths>>

\* Put, as one uninterrupted call.
Put(buf) ==
    IF buf = NilBuf \/ buf.cap = 0
    THEN UNCHANGED poolVars
    ELSE LET capacity == buf.cap IN
         IF TooLarge(capacity)
         THEN PutDiscards(capacity)
         ELSE IF capacity \in DOMAIN pools
              THEN PutCaches(buf, capacity)
              ELSE PutFindsNoClass

\* GetPoolStats: the counters and the ring snapshot, read one after the other.
GetPoolStats ==
    [pools |-> [size \in DOMAIN stats |-> [get |-> stats[size].Get, put |-> stats[size].Put]],
     discarded |-> discardedCount,
     total_get |-> totalGet,
     total_put |-> totalPut,
     recent_lengths |-> RingQueuer_Bytes(recentLengths)]

\* ------------------------------------------------------------------ construction

\* NewPools(arg) followed by nothing else: the state after construction.
NewPools(arg) ==
    /\ arg # <<>>
    /\ sizes = SortedSizes(arg)
    /\ maxPoolSize = sizes[Len(arg)]
    /\ pools = [c \in Range(sizes) |-> EmptyBag]
    /\ stats = [c \in Range(sizes) |-> [Get |-> 0, Put |-> 0]]
    /\ discardedCount = 0
    /\ totalGet = 0
    /\ totalPut = 0
    /\ recentLengths = NewRingQueue(RingSize)

NoCall == [op |-> "none", n |-> 0, buf |-> NilBuf]

\* The NewPools call of the harnesses that start from a constructed pool.
NoConfig == [state |-> "built", sizes |-> <<>>, opts |-> <<>>, uses |-> "default"]

\* A goroutine outside every RingQueue call.
NoRingLocals == [pc |-> "idle", pos |-> 0, item |-> 0, cur |-> 0, i |-> 0, res |-> <<>>]

\* Both rings of the harness as their constructors leave them.
NoRingCall == [op |-> "none", a |-> 0, b |-> 0]

RingsFresh(size) ==
    /\ ring = NewRingQueue(size)
    /\ locked = NewLockedRingQueue(size)
    /\ npush = 0
    /\ pushed = <<>>
    /\ fifo = <<>>
    /\ out = NoRingCall
    /\ rt = [t \in Tasks |-> NoRingLocals]
    /\ touched = {}
    /\ mu = NewRWMutex
    /\ popped = <<>>
    /\ written = {}
    /\ got = <<>>

RingsNew(size) == RingsFresh(size) /\ config = NoConfig

\* No caller, handle or task has done anything yet.
Quiet ==
    /\ nextId = 1
    /\ held = {}
    /\ call = NoCall
    /\ ret = NilBuf
    /\ asked = <<>>
    /\ bufs = <<>>
    /\ hist = <<>>
    /\ refs = [t \in Threads |-> <<>>]
    /\ pc = [t \in Threads |-> "idle"]
    /\ loc = [t \in Threads |-> [h |-> 0, buf |-> NilBuf]]
    /\ task = [t \in 1..NumTasks |->
                 [pc |-> "idle", length |-> 0, pos |-> 0, buf |-> NilBuf, cycles |-> 0]]

Idle == Quiet /\ RingsNew(RingSize)

\* ------------------------------------------------------------------ sequential callers

\* The call budget that keeps the counters finite.
Budget == recentLengths.writePos + totalPut + discardedCount < MaxOps

\* buf := pool.Get(n); the caller keeps the slice.
CallGet(n) ==
    /\ GetIsNoop(n) \/ Budget
    /\ Get(n)
    /\ call' = [op |-> "Get", n |-> n, buf |-> NilBuf]
    /\ held' = IF ret' = NilBuf THEN held ELSE held \cup {ret'}
    /\ asked' = IF n > 0 THEN Append(asked, n) ELSE asked
    /\ UNCHANGED <<handleVars, otherVars>>

\* pool.Put(b) of a slice obtained from Get; the caller lets go of it.
CallPutHeld(b) ==
    /\ Budget
    /\ Put(b)
    /\ call' = [op |-> "Put", n |-> 0, buf |-> b]
    /\ ret' = NilBuf
    /\ held' = held \ {b}
    /\ UNCHANGED <<nextId, asked, handleVars, otherVars>>

\* pool.Put(make([]byte, l, c)) of a slice the caller made itself
\* (also Put(nil) and Put of an empty slice, with c = 0).
CallPutMade(l, c) ==
    LET b == IF c = 0 THEN NilBuf ELSE [id |-> nextId, len |-> l, cap |-> c] IN
    /\ c = 0 \/ c \notin DOMAIN pools \/ Budget
    /\ TooLarge(c) => Budget
    /\ Put(b)
    /\ call' = [op |-> "Put", n |-> 0, buf |-> b]
    /\ ret' = NilBuf
    /\ nextId' = IF c \in DOMAIN pools THEN nextId + 1 ELSE nextId
    /\ UNCHANGED <<held, asked, handleVars, otherVars>>

Init == \E arg \in SizeLists : NewPools(arg) /\ Idle

\* Capacities of the slices a caller makes itself: none, every class, one beyond.
MadeCaps == 0..(SetMax(ClassVals) + 1)

Next ==
    \/ \E n \in Lengths : CallGet(n)
    \/ \E b \in held : CallPutHeld(b)
    \/ \E c \in MadeCaps : \E l \in {0, c} : CallPutMade(l, c)

Spec == Init /\ [][Next]_vars


\* ------------------------------------------------------------------ buffer.go

\* A mutant of NewBuffer: the handle starts with no reference counted.
NewBufferUncounted(data) == [buf |-> <<data>>, refCount |-> 0]

\* NewBuffer: refCount 1, the cell holds a pointer to data (also when data is nil).
NewBuffer(data) == [buf |-> <<data>>, refCount |-> 1]

\* A mutant of RetainCount: Retain leaves the count as it was.
RetainCountLost(count) == count

\* Retain: atomic.AddInt32(&b.refCount, 1).
RetainCount(count) == count + 1

\* A mutant of ReleaseHitsZero: the hand-off starts one reference early.
ReleaseHitsZeroEarly(newCount) == newCount <= 1

\* A mutant of ReleaseHitsZero: the value before the decrement is compared.
ReleaseHitsZeroOld(newCount) == newCount + 1 = 0

\* A mutant of ReleaseHitsZero: a count below zero starts the hand-off too.
ReleaseHitsZeroOrBelow(newCount) == newCount <= 0

\* Release line 26: atomic.AddInt32(&b.refCount, -1) == 0.
ReleaseHitsZero(newCount) == newCount = 0

\* A mutant of SwapNil: the cell is read but not emptied.
SwapNilKeeps(cell) == cell

\* Release line 27: b.buf.Swap(nil) leaves the cell empty.
SwapNil(cell) == <<>>

Handles == DOMAIN bufs

NoLocals == [h |-> 0, buf |-> NilBuf]

\* Thread t gains (d = 1) or gives up (d = -1) a reference to handle h.
RefsAdd(t, h, d) == [refs EXCEPT ![t][h] = @ + d]

\* GetBuffer(length): Get, then NewBuffer around the slice; thread t owns the
\* one reference.
GetBuffer(t, length) ==
    /\ pc[t] = "idle"
    /\ Get(length)
    /\ bufs' = Append(bufs, NewBuffer(ret'))
    /\ hist' = Append(hist, [data |-> ret', retains |-> 0, decs |-> 0, puts |-> 0,
                             emptied |-> 0])
    /\ refs' = [u \in Threads |-> Append(refs[u], IF u = t THEN 1 ELSE 0)]
    /\ asked' = IF length > 0 THEN Append(asked, length) ELSE asked
    /\ UNCHANGED <<held, call, pc, loc, otherVars>>

RECURSIVE SumOver(_, _)
SumOver(f, n) == IF n = 0 THEN 0 ELSE f[n] + SumOver(f, n - 1)

\* Increments and decrements made so far, over all handles.
Retains == SumOver([h \in Handles |-> hist[h].retains], Len(hist))

Decs == SumOver([h \in Handles |-> hist[h].decs], Len(hist))

\* b.Retain() by thread t.
Retain(t, h) ==
    /\ pc[t] = "idle"
    /\ Retains < MaxRetains
    /\ bufs' = [bufs EXCEPT ![h].refCount = RetainCount(@)]
    /\ hist' = [hist EXCEPT ![h].retains = @ + 1]
    /\ UNCHANGED <<poolVars, callerVars, pc, loc, otherVars>>

\* b.Bytes(), first step: b.Retain().
BytesRetain(t, h) ==
    /\ pc[t] = "idle"
    /\ Retains < MaxRetains
    /\ bufs' = [bufs EXCEPT ![h].refCount = RetainCount(@)]
    /\ hist' = [hist EXCEPT ![h].retains = @ + 1]
    /\ pc' = [pc EXCEPT ![t] = "bytes_load"]
    /\ loc' = [loc EXCEPT ![t] = [h |-> h, buf |-> NilBuf]]
    /\ UNCHANGED <<poolVars, callerVars, otherVars>>

\* b.Bytes(), second step: bufPtr := b.buf.Load().  An empty cell returns
\* (nil, func() {}); otherwise (*bufPtr, b.Release).
BytesLoad(t) ==
    /\ pc[t] = "bytes_load"
    /\ loc' = [loc EXCEPT ![t] = NoLocals]
    /\ pc' = [pc EXCEPT ![t] = "idle"]
    /\ UNCHANGED <<poolVars, callerVars, bufs, hist, otherVars>>

\* A mutant of BytesGivesRelease: b.Release is returned for an empty cell too.
BytesGivesReleaseAlways(t) == TRUE

\* Whether the Bytes call thread t is in returns b.Release (and not func() {}).
BytesGivesRelease(t) == bufs[loc[t].h].buf # <<>>

\* b.Release(), first step: the atomic decrement and its test against zero.
ReleaseDec(t, h) ==
    /\ pc[t] = "idle"
    /\ Decs < MaxReleases
    /\ bufs' = [bufs EXCEPT ![h].refCount = @ - 1]
    /\ hist' = [hist EXCEPT ![h].decs = @ + 1]
    /\ IF ReleaseHitsZero(bufs[h].refCount - 1)
       THEN /\ pc' = [pc EXCEPT ![t] = "rel_swap"]
            /\ loc' = [loc EXCEPT ![t] = [h |-> h, buf |-> NilBuf]]
       ELSE UNCHANGED <<pc, loc>>
    /\ UNCHANGED <<poolVars, callerVars, otherVars>>

\* b.Release(), second step: bufPtr := b.buf.Swap(nil); if bufPtr != nil.
ReleaseSwap(t) ==
    /\ pc[t] = "rel_swap"
    /\ LET h == loc[t].h
           bufPtr == bufs[h].buf
       IN /\ bufs' = [bufs EXCEPT ![h].buf = SwapNil(@)]
          /\ IF bufPtr # <<>>
             THEN /\ pc' = [pc EXCEPT ![t] = "rel_put"]
                  /\ loc' = [loc EXCEPT ![t].buf = bufPtr[1]]
                  /\ hist' = [hist EXCEPT ![h].emptied =
                                 IF bufs'[h].buf = <<>> THEN @ + 1 ELSE @]
             ELSE /\ pc' = [pc EXCEPT ![t] = "idle"]
                  /\ loc' = [loc EXCEPT ![t] = NoLocals]
                  /\ hist' = hist
    /\ UNCHANGED <<poolVars, callerVars, otherVars>>

\* b.Release(), third step: b.pools.Put(*bufPtr).
ReleasePut(t) ==
    /\ pc[t] = "rel_put"
    /\ Put(loc[t].buf)
    /\ hist' = [hist EXCEPT ![loc[t].h].puts = @ + 1]
    /\ pc' = [pc EXCEPT ![t] = "idle"]
    /\ loc' = [loc EXCEPT ![t] = NoLocals]
    /\ UNCHANGED <<callerVars, bufs, otherVars>>

\* b.Release() as one uninterrupted call (also pool.ReleaseBuffer(b), which
\* only calls it): decrement, and on zero exchange the cell for nil and Put
\* what it held.
Release(t, h) ==
    LET newCount == bufs[h].refCount - 1
        bufPtr == bufs[h].buf
    IN /\ pc[t] = "idle"
       /\ Decs < MaxReleases
       /\ IF ReleaseHitsZero(newCount)
          THEN /\ bufs' = [bufs EXCEPT ![h].refCount = newCount, ![h].buf = SwapNil(@)]
               /\ IF bufPtr # <<>>
                  THEN /\ Put(bufPtr[1])
                       /\ hist' = [hist EXCEPT ![h].decs = @ + 1, ![h].puts = @ + 1,
                                                ![h].emptied = @ + 1]
                  ELSE /\ UNCHANGED poolVars
                       /\ hist' = [hist EXCEPT ![h].decs = @ + 1]
          ELSE /\ bufs' = [bufs EXCEPT ![h].refCount = newCount]
               /\ hist' = [hist EXCEPT ![h].decs = @ + 1]
               /\ UNCHANGED poolVars
       /\ UNCHANGED <<callerVars, pc, loc, otherVars>>

\* ------------------------------------------------------------------ concurrent holders

\* The pool the handles are taken from, and the lengths asked of GetBuffer:
\* nothing, a pooled length, a length beyond the largest class.
HandleSizes == <<4, 2>>

HandleLengths == {0, 1, SetMax(Range(HandleSizes)) + 1}

InitHandles == NewPools(HandleSizes) /\ Idle

\* Thread t holds an unreleased reference to handle h.
Holds(t, h) == refs[t][h] >= 1

\* One handle is followed from its creation: handles share nothing but the pool.
FirstGetBuffer(t, length) == bufs = <<>> /\ GetBuffer(t, length)

\* Callers that keep the protocol: only a holder retains, takes a view or
\* releases, and a reference is released once.  The reference a Retain or a
\* Bytes call adds (the closure) is handed to some thread u.
HolderRetain(t, h, u) ==
    /\ Holds(t, h)
    /\ Retain(t, h)
    /\ refs' = RefsAdd(u, h, 1)

HolderBytesRetain(t, h) ==
    /\ Holds(t, h)
    /\ BytesRetain(t, h)
    /\ refs' = refs

HolderBytesLoad(t, u) ==
    /\ BytesLoad(t)
    /\ refs' = IF BytesGivesRelease(t) THEN RefsAdd(u, loc[t].h, 1) ELSE refs

HolderRelease(t, h) ==
    /\ Holds(t, h)
    /\ ReleaseDec(t, h)
    /\ refs' = RefsAdd(t, h, -1)

StepSwap(t) == ReleaseSwap(t) /\ refs' = refs

StepPut(t) == ReleasePut(t) /\ refs' = refs

NextProtocol ==
    \/ \E t \in Threads, n \in HandleLengths : FirstGetBuffer(t, n)
    \/ \E t, u \in Threads : \E h \in Handles : HolderRetain(t, h, u)
    \/ \E t \in Threads : \E h \in Handles : HolderBytesRetain(t, h)
    \/ \E t, u \in Threads : HolderBytesLoad(t, u)
    \/ \E t \in Threads : \E h \in Handles : HolderRelease(t, h)
    \/ \E t \in Threads : StepSwap(t)
    \/ \E t \in Threads : StepPut(t)

SpecProtocol == InitHandles /\ [][NextProtocol]_vars

\* The scheduler runs every goroutine that can take a step, and every holder
\* does call Release.
FairProtocol ==
    /\ \A t \in Threads : WF_vars(\E u \in Threads : HolderBytesLoad(t, u))
    /\ \A t \in Threads : WF_vars(StepSwap(t))
    /\ \A t \in Threads : WF_vars(StepPut(t))
    /\ \A t \in Threads : WF_vars(\E h \in Handles : HolderRelease(t, h))

SpecProtocolFair == SpecProtocol /\ FairProtocol

\* Callers under no discipline: any thread retains, takes a view of or releases
\* any handle at any time, also after the count has reached zero.
AnyRetain(t, h) == Retain(t, h) /\ refs' = refs

AnyBytesRetain(t, h) == BytesRetain(t, h) /\ refs' = refs

AnyBytesLoad(t) == BytesLoad(t) /\ refs' = refs

AnyRelease(t, h) == ReleaseDec(t, h) /\ refs' = refs

NextAny ==
    \/ \E t \in Threads, n \in HandleLengths : FirstGetBuffer(t, n)
    \/ \E t \in Threads : \E h \in Handles : AnyRetain(t, h)
    \/ \E t \in Threads : \E h \in Handles : AnyBytesRetain(t, h)
    \/ \E t \in Threads : AnyBytesLoad(t)
    \/ \E t \in Threads : \E h \in Handles : AnyRelease(t, h)
    \/ \E t \in Threads : StepSwap(t)
    \/ \E t \in Threads : StepPut(t)

SpecAny == InitHandles /\ [][NextAny]_vars

\* ------------------------------------------------------------------ the closure of Bytes

\* b.Bytes(), second step, with what the call returns kept: bufPtr :=
\* b.buf.Load(); an empty cell returns (nil, func() {}), otherwise
\* (*bufPtr, b.Release).  The caller hands the pair to goroutine u (itself or
\* an idle one), which is to invoke the closure.
ViewLoad(t, u) ==
    /\ pc[t] = "bytes_load"
    /\ u = t \/ pc[u] = "idle"
    /\ LET h == loc[t].h IN
       /\ pc' = [pc EXCEPT ![t] = "idle",
                           ![u] = IF BytesGivesRelease(t) THEN "fn_release"
                                  ELSE "fn_noop"]
       /\ loc' = [loc EXCEPT ![t] = NoLocals,
                             ![u] = [h |-> h,
                                     buf |-> IF bufs[h].buf # <<>>
                                             THEN bufs[h].buf[1] ELSE NilBuf]]
    /\ refs' = refs
    /\ UNCHANGED <<poolVars, callerVars, bufs, hist, otherVars>>

\* Goroutine t invokes the closure it was handed: func() {} does nothing,
\* b.Release decrements and tests the new count as every Release does.
CallClosure(t) ==
    /\ pc[t] \in {"fn_release", "fn_noop"}
    /\ LET h == loc[t].h IN
       IF pc[t] = "fn_release"
       THEN /\ Decs < MaxReleases
            /\ bufs' = [bufs EXCEPT ![h].refCount = @ - 1]
            /\ hist' = [hist EXCEPT ![h].decs = @ + 1]
            /\ IF ReleaseHitsZero(bufs[h].refCount - 1)
               THEN /\ pc' = [pc EXCEPT ![t] = "rel_swap"]
                    /\ loc' = [loc EXCEPT ![t] = [h |-> h, buf |-> NilBuf]]
               ELSE /\ pc' = [pc EXCEPT ![t] = "idle"]
                    /\ loc' = [loc EXCEPT ![t] = NoLocals]
       ELSE /\ pc' = [pc EXCEPT ![t] = "idle"]
            /\ loc' = [loc EXCEPT ![t] = NoLocals]
            /\ UNCHANGED <<bufs, hist>>
    /\ refs' = refs
    /\ UNCHANGED <<poolVars, callerVars, otherVars>>

\* Callers that keep the protocol, every Bytes call followed up to the
\* invocation of its closure.
NextView ==
    \/ \E t \in Tasks, n \in HandleLengths : FirstGetBuffer(t, n)
    \/ \E t, u \in Tasks : \E h \in Handles : HolderRetain(t, h, u)
    \/ \E t \in Tasks : \E h \in Handles : HolderBytesRetain(t, h)
    \/ \E t, u \in Tasks : ViewLoad(t, u)
    \/ \E t \in Tasks : CallClosure(t)
    \/ \E t \in Tasks : \E h \in Handles : HolderRelease(t, h)
    \/ \E t \in Tasks : StepSwap(t)
    \/ \E t \in Tasks : StepPut(t)

SpecView == InitHandles /\ [][NextView]_vars

\* Callers under no discipline, every Bytes call followed up to the
\* invocation of its closure.
NextViewAny ==
    \/ \E t \in Tasks, n \in HandleLengths : FirstGetBuffer(t, n)
    \/ \E t \in Tasks : \E h \in Handles : AnyRetain(t, h)
    \/ \E t \in Tasks : \E h \in Handles : AnyBytesRetain(t, h)
    \/ \E t, u \in Tasks : ViewLoad(t, u)
    \/ \E t \in Tasks : CallClosure(t)
    \/ \E t \in Tasks : \E h \in Handles : AnyRelease(t, h)
    \/ \E t \in Tasks : StepSwap(t)
    \/ \E t \in Tasks : StepPut(t)

SpecViewAny == InitHandles /\ [][NextViewAny]_vars


\* ------------------------------------------------------------------ one owner, many handles

\* One goroutine creates handles with GetBuffer(n), 0 < n <= largest class, and
\* gives each back with a single ReleaseBuffer, in any order.
PooledLengths == 1..SetMax(Range(HandleSizes))

OwnerGetBuffer(t, length) ==
    /\ Len(bufs) < MaxHandles
    /\ GetBuffer(t, length)

OwnerReleaseBuffer(t, h) ==
    /\ Holds(t, h)
    /\ Release(t, h)
    /\ refs' = RefsAdd(t, h, -1)

NextOwner ==
    \/ \E n \in PooledLengths : OwnerGetBuffer(1, n)
    \/ \E h \in Handles : OwnerReleaseBuffer(1, h)

SpecOwner == InitHandles /\ [][NextOwner]_vars

\* ------------------------------------------------------------------ concurrent Get/Put tasks

\* Goroutines that run cycles of buf := pool.Get(n); pool.Put(buf), each call
\* taken one shared-memory access at a time.
TaskAt(t, label) == task[t].pc = label

TaskGoes(t, label) == [task EXCEPT ![t].pc = label]

\* Get line 129, Push line 30: the cursor claim.
TaskGetClaim(t, length) ==
    /\ TaskAt(t, "idle")
    /\ task[t].cycles < MaxCycles
    /\ ~GetIsNoop(length)
    /\ recentLengths' = RingQueue_Claim(recentLengths)
    /\ task' = [task EXCEPT ![t].pc = "get_store", ![t].length = length,
                            ![t].pos = recentLengths.writePos]
    /\ UNCHANGED <<sizes, maxPoolSize, pools, stats, discardedCount, totalGet,
                   totalPut, callerVars, handleVars, ringVars>>

\* Get line 129, Push line 34: the slot store.
TaskGetStore(t) ==
    /\ TaskAt(t, "get_store")
    /\ recentLengths' = RingQueue_Store(recentLengths, task[t].pos, task[t].length)
    /\ task' = TaskGoes(t, "get_count")
    /\ UNCHANGED <<sizes, maxPoolSize, pools, stats, discardedCount, totalGet,
                   totalPut, callerVars, handleVars, ringVars>>

\* Get lines 131-139: an oversized request is counted as discarded and served
\* by make; any other raises its class's get-counter.
TaskGetCount(t) ==
    /\ TaskAt(t, "get_count")
    /\ IF TooLarge(task[t].length)
       THEN /\ discardedCount' = discardedCount + 1
            /\ task' = [task EXCEPT ![t].pc = "put_count",
                                    ![t].buf = MakeBuf(nextId, task[t].length)]
            /\ nextId' = nextId + 1
            /\ stats' = stats
       ELSE /\ stats' = StatsAfterGet(findBestSize(task[t].length))
            /\ task' = TaskGoes(t, "get_total")
            /\ UNCHANGED <<discardedCount, nextId>>
    /\ UNCHANGED <<sizes, maxPoolSize, pools, totalGet, totalPut, recentLengths,
                   held, call, ret, asked, handleVars, ringVars>>

\* Get line 140: atomic.AddInt64(&p.totalGet, 1).
TaskGetTotal(t) ==
    /\ TaskAt(t, "get_total")
    /\ totalGet' = totalGet + 1
    /\ task' = TaskGoes(t, "get_pool")
    /\ UNCHANGED <<sizes, maxPoolSize, pools, stats, discardedCount, totalPut,
                   recentLengths, callerVars, handleVars, ringVars>>

\* Get lines 142-143: buf := *pool.Get(); return buf[:length].
TaskGetPool(t) ==
    /\ TaskAt(t, "get_pool")
    /\ LET size == findBestSize(task[t].length) IN
       \/ \E b \in PoolGetCached(size) :
             /\ pools' = [pools EXCEPT ![size] = @ (-) SetToBag({b})]
             /\ task' = [task EXCEPT ![t].pc = "put_count",
                                     ![t].buf = Reslice(b, task[t].length)]
             /\ nextId' = nextId
       \/ /\ task' = [task EXCEPT ![t].pc = "put_count",
                                  ![t].buf = Reslice(MakeBuf(nextId, size), task[t].length)]
          /\ nextId' = nextId + 1
          /\ pools' = pools
    /\ UNCHANGED <<sizes, maxPoolSize, stats, discardedCount, totalGet, totalPut,
                   recentLengths, held, call, ret, asked, handleVars, ringVars>>

\* The cycle is over: the task is ready for its next Get.
TaskDone(t) == [task EXCEPT ![t].pc = "idle", ![t].buf = NilBuf, ![t].cycles = @ + 1]

\* Put lines 162-176: nothing for a nil or empty slice, discardedCount for an
\* oversized one, the class's put-counter for one of a class.
TaskPutCount(t) ==
    LET buf == task[t].buf
        capacity == buf.cap
    IN /\ TaskAt(t, "put_count")
       /\ IF buf = NilBuf \/ capacity = 0
          THEN /\ task' = TaskDone(t)
               /\ UNCHANGED <<stats, discardedCount>>
          ELSE IF TooLarge(capacity)
               THEN /\ discardedCount' = discardedCount + 1
                    /\ task' = TaskDone(t)
                    /\ stats' = stats
               ELSE IF capacity \in DOMAIN pools
                    THEN /\ stats' = [stats EXCEPT ![capacity].Put = @ + 1]
                         /\ task' = TaskGoes(t, "put_total")
                         /\ discardedCount' = discardedCount
                    ELSE /\ task' = TaskDone(t)
                         /\ UNCHANGED <<stats, discardedCount>>
       /\ UNCHANGED <<sizes, maxPoolSize, pools, totalGet, totalPut, recentLengths,
                      callerVars, handleVars, ringVars>>

\* Put line 177: atomic.AddInt64(&p.totalPut, 1).
TaskPutTotal(t) ==
    /\ TaskAt(t, "put_total")
    /\ totalPut' = totalPut + 1
    /\ task' = TaskGoes(t, "put_pool")
    /\ UNCHANGED <<sizes, maxPoolSize, pools, stats, discardedCount, totalGet,
                   recentLengths, callerVars, handleVars, ringVars>>

\* Put lines 180-181: buf = buf[:capacity]; pool.Put(&buf).
TaskPutPool(t) ==
    LET capacity == task[t].buf.cap IN
    /\ TaskAt(t, "put_pool")
    /\ pools' = [pools EXCEPT
                   ![capacity] = @ (+) SetToBag({PutView(task[t].buf, capacity)})]
    /\ task' = TaskDone(t)
    /\ UNCHANGED <<sizes, maxPoolSize, stats, discardedCount, totalGet, totalPut,
                   recentLengths, callerVars, handleVars, ringVars>>

\* The length task t asks for in its cycle j (pool_example_test.go:359 has
\* base*10 + j + 1): always within the classes, alternating between a length
\* of the small class and one of the large class.
TaskLength(t, j) ==
    IF (t + j) % 2 = 0 THEN SetMin(Range(HandleSizes)) - 1
    ELSE SetMax(Range(HandleSizes))

NextTasks ==
    \/ \E t \in Tasks : TaskGetClaim(t, TaskLength(t, task[t].cycles))
    \/ \E t \in Tasks : TaskGetStore(t)
    \/ \E t \in Tasks : TaskGetCount(t)
    \/ \E t \in Tasks : TaskGetTotal(t)
    \/ \E t \in Tasks : TaskGetPool(t)
    \/ \E t \in Tasks : TaskPutCount(t)
    \/ \E t \in Tasks : TaskPutTotal(t)
    \/ \E t \in Tasks : TaskPutPool(t)

SpecTasks == InitHandles /\ [][NextTasks]_vars

\* ------------------------------------------------------------------ several handles, several goroutines

\* Goroutines that create handles and retain, view and release any of them in
\* any order, also more often than the protocol allows; no goroutine calls
\* Put itself.
\* Two handles are followed, the fewest that tell "every handle" from "a
\* handle"; goroutine 1 creates them.
HandlePair == {1, 2}

SharedGetBuffer(t, length) ==
    /\ Len(bufs) + 1 \in HandlePair
    /\ GetBuffer(t, length)

NextShared ==
    \/ \E n \in HandleLengths : SharedGetBuffer(1, n)
    \/ \E t \in Tasks : \E h \in Handles : AnyRetain(t, h)
    \/ \E t \in Tasks : \E h \in Handles : AnyBytesRetain(t, h)
    \/ \E t \in Tasks : AnyBytesLoad(t)
    \/ \E t \in Tasks : \E h \in Handles : AnyRelease(t, h)
    \/ \E t \in Tasks : StepSwap(t)
    \/ \E t \in Tasks : StepPut(t)

SpecShared == InitHandles /\ [][NextShared]_vars

\* ------------------------------------------------------------------ the rings, one caller

\* A ring of every capacity up to RingSize, next to an untouched pool.
InitRings == NewPools(HandleSizes) /\ Quiet /\ \E size \in 1..RingSize : RingsNew(size)

\* The bounded FIFO sequence: a push onto a full sequence drops its oldest.
FifoPush(f, capacity, item) ==
    IF Len(f) >= capacity THEN Append(Tail(f), item) ELSE Append(f, item)

FifoPeek(f) == IF f = <<>> THEN [item |-> 0, ok |-> FALSE] ELSE [item |-> Head(f), ok |-> TRUE]

FifoPop(f) == IF f = <<>> THEN f ELSE Tail(f)

\* The k-th Push of a run pushes the value k.
NextItem == npush + 1

RingFrame ==
    UNCHANGED <<poolVars, callerVars, handleVars, task, rt, touched, mu, popped,
                config, written, got>>

\* One caller makes the same call on the lock-free and on the mutex-guarded
\* ring; a holds the former's answer, b the latter's.
PairPush ==
    /\ npush < MaxPushes
    /\ ring' = RingQueue_Push(ring, NextItem)
    /\ locked' = LockedRingQueue_Push(locked, NextItem)
    /\ npush' = npush + 1
    /\ pushed' = Append(pushed, NextItem)
    /\ fifo' = FifoPush(fifo, ring.size, NextItem)
    /\ out' = [op |-> "Push", a |-> 0, b |-> 0]
    /\ RingFrame

PairClear ==
    /\ ring' = RingQueue_Clear(ring)
    /\ locked' = LockedRingQueue_Clear(locked)
    /\ pushed' = <<>>
    /\ fifo' = <<>>
    /\ out' = [op |-> "Clear", a |-> 0, b |-> 0]
    /\ npush' = npush
    /\ RingFrame

PairAnswer(op, a, b) ==
    /\ out' = [op |-> op, a |-> a, b |-> b]
    /\ UNCHANGED <<ring, locked, npush, pushed, fifo>>
    /\ RingFrame

PairSnapshot == PairAnswer("Snapshot", RingQueue_Bytes(ring), LockedRingQueue_Bytes(locked))

PairLen == PairAnswer("Len", RingQueue_Len(ring), LockedRingQueue_Len(locked))

PairCap == PairAnswer("Cap", RingQueue_Cap(ring), LockedRingQueue_Cap(locked))

PairIsFull == PairAnswer("IsFull", RingQueue_IsFull(ring), LockedRingQueue_IsFull(locked))

PairIsEmpty ==
    PairAnswer("IsEmpty", RingQueue_IsEmpty(ring), LockedRingQueue_IsEmpty(locked))

NextPair ==
    \/ PairPush
    \/ PairClear
    \/ PairSnapshot
    \/ PairLen
    \/ PairCap
    \/ PairIsFull
    \/ PairIsEmpty

SpecPair == InitRings /\ [][NextPair]_vars

\* One caller of the mutex-guarded ring alone, next to the bounded FIFO
\* sequence; a holds the sequence's answer, b the ring's.
LockedFrame == UNCHANGED <<ring, pushed>> /\ RingFrame

LockedPush ==
    /\ npush < MaxPushes
    /\ locked' = LockedRingQueue_Push(locked, NextItem)
    /\ fifo' = FifoPush(fifo, locked.size, NextItem)
    /\ npush' = npush + 1
    /\ out' = [op |-> "Push", a |-> 0, b |-> 0]
    /\ LockedFrame

LockedPop ==
    /\ locked' = LockedRingQueue_Pop(locked)
    /\ fifo' = FifoPop(fifo)
    /\ out' = [op |-> "Pop", a |-> FifoPeek(fifo), b |-> LockedRingQueue_PopItem(locked)]
    /\ npush' = npush
    /\ LockedFrame

LockedPeek ==
    /\ out' = [op |-> "Peek", a |-> FifoPeek(fifo), b |-> LockedRingQueue_Peek(locked)]
    /\ UNCHANGED <<locked, fifo, npush>>
    /\ LockedFrame

LockedClear ==
    /\ locked' = LockedRingQueue_Clear(locked)
    /\ fifo' = <<>>
    /\ out' = [op |-> "Clear", a |-> 0, b |-> 0]
    /\ npush' = npush
    /\ LockedFrame

LockedSnapshot ==
    /\ out' = [op |-> "Snapshot", a |-> fifo, b |-> LockedRingQueue_Bytes(locked)]
    /\ UNCHANGED <<locked, fifo, npush>>
    /\ LockedFrame

NextLocked ==
    \/ LockedPush
    \/ LockedPop
    \/ LockedPeek
    \/ LockedClear
    \/ LockedSnapshot

SpecLocked == InitRings /\ [][NextLocked]_vars

\* One caller of both rings who also pops and peeks the mutex-guarded one.
NextBoth ==
    \/ NextPair
    \/ LockedPop
    \/ LockedPeek

SpecBoth == InitRings /\ [][NextBoth]_vars


\* ------------------------------------------------------------------ the lock-free ring, several goroutines

\* Goroutines that call Push, Bytes and Clear on one RingQueue, each call taken
\* one shared-memory access at a time.  The accesses to data are not
\* synchronised: a read returns what the latest store to the slot left.
RaceFrame ==
    UNCHANGED <<poolVars, callerVars, handleVars, task, locked, fifo, out, mu, popped,
                config, written, got>>

RingIdle(t) == rt[t].pc = "idle"

\* Push line 30: pos := atomic.AddInt64(&rq.writePos, 1) - 1.
PushClaim(t) ==
    /\ RingIdle(t)
    /\ npush < MaxPushes
    /\ ring' = RingQueue_Claim(ring)
    /\ rt' = [rt EXCEPT ![t] = [NoRingLocals EXCEPT !.pc = "store",
                                                    !.pos = ring.writePos,
                                                    !.item = NextItem]]
    /\ npush' = npush + 1
    /\ pushed' = Append(pushed, NextItem)
    /\ touched' = touched
    /\ RaceFrame

\* Push lines 33-34: rq.data[actualPos] = item.
PushStore(t) ==
    /\ rt[t].pc = "store"
    /\ ring' = RingQueue_Store(ring, rt[t].pos, rt[t].item)
    /\ touched' = touched \cup {RingQueue_actualPos(ring, rt[t].pos)}
    /\ rt' = [rt EXCEPT ![t] = NoRingLocals]
    /\ UNCHANGED <<npush, pushed>>
    /\ RaceFrame

\* Bytes lines 40-54: the cursor is read once; 0 returns nil, any other value
\* sizes the result.
BytesCursor(t) ==
    /\ RingIdle(t)
    /\ rt' = [rt EXCEPT ![t] = IF ring.writePos = 0 THEN NoRingLocals
                               ELSE [NoRingLocals EXCEPT !.pc = "copy",
                                                         !.cur = ring.writePos]]
    /\ UNCHANGED <<ring, npush, pushed, touched>>
    /\ RaceFrame

\* Bytes lines 49 and 59-62: one element is copied from its slot; after the
\* last one the call returns.
BytesCopy(t) ==
    LET actualPos == RingQueue_BytesPos(ring, rt[t].cur, rt[t].i)
        last == rt[t].i + 1 = RingQueue_BytesLen(ring, rt[t].cur)
    IN /\ rt[t].pc = "copy"
       /\ rt' = [rt EXCEPT ![t].res = Append(@, ring.data[actualPos + 1]),
                           ![t].i = IF last THEN 0 ELSE @ + 1,
                           ![t].cur = IF last THEN 0 ELSE @,
                           ![t].pc = IF last THEN "idle" ELSE "copy"]
       /\ touched' = touched \cup {actualPos}
       /\ UNCHANGED <<ring, npush, pushed>>
       /\ RaceFrame

\* Clear line 94: atomic.StoreInt64(&rq.writePos, 0).
ClearCursor(t) ==
    /\ RingIdle(t)
    /\ ring' = [ring EXCEPT !.writePos = 0]
    /\ rt' = [rt EXCEPT ![t] = [NoRingLocals EXCEPT !.pc = "zero"]]
    /\ pushed' = <<>>
    /\ UNCHANGED <<npush, touched>>
    /\ RaceFrame

\* Clear line 95: clear(rq.data), one slot after the other.
ClearSlot(t) ==
    LET last == rt[t].i + 1 = ring.size IN
    /\ rt[t].pc = "zero"
    /\ ring' = [ring EXCEPT !.data[rt[t].i + 1] = 0]
    /\ rt' = [rt EXCEPT ![t] = IF last THEN NoRingLocals ELSE [@ EXCEPT !.i = @ + 1]]
    /\ UNCHANGED <<npush, pushed, touched>>
    /\ RaceFrame

\* Concurrent pushers only.
NextPushers ==
    \/ \E t \in Tasks : PushClaim(t)
    \/ \E t \in Tasks : PushStore(t)

SpecPushers == InitRings /\ [][NextPushers]_vars

\* Concurrent pushers, readers and clearers.
RacePushClaim(t) == npush < MaxRacePushes /\ PushClaim(t)

NextRace ==
    \/ \E t \in Tasks : RacePushClaim(t)
    \/ \E t \in Tasks : PushStore(t)
    \/ \E t \in Tasks : BytesCursor(t)
    \/ \E t \in Tasks : BytesCopy(t)
    \/ \E t \in Tasks : ClearCursor(t)
    \/ \E t \in Tasks : ClearSlot(t)

SpecRace == InitRings /\ [][NextRace]_vars

\* ------------------------------------------------------------------ the mutex-guarded ring, several goroutines

\* Goroutines call the LockedRingQueue step by step: the lock is taken in
\* one step, the fields are read and written in further ones, and the
\* deferred unlock comes with the return.  fifo follows the calls in the
\* order of their returns; out.a is the bounded FIFO sequence's answer at
\* the return, out.b what the call returns.
LockFrame ==
    UNCHANGED <<poolVars, callerVars, handleVars, task, ring, pushed, touched, config,
                written, got>>

RingAt(t, label) == rt[t].pc = label

RingGoes(t, label) == rt' = [rt EXCEPT ![t].pc = label]

RingReturns(t, label) == rt' = [rt EXCEPT ![t] = [NoRingLocals EXCEPT !.pc = label]]

\* Goroutines that have called Peek or Bytes and wait at mu.RLock().
WaitingReaders == {u \in Tasks : rt[u].pc \in {"call_peek", "call_bytes"}}

\* Some goroutine has called Push, Pop or Clear and waits at mu.Lock().
WriterWaits == \E u \in Tasks : rt[u].pc \in {"call_push", "call_pop", "call_clear"}

\* A mutant of Unlock: the return leaves the mutex held.
UnlockForgotten == mu' = mu

\* The deferred mu.Unlock() of a writer: sync.RWMutex passes the mutex to the
\* readers that were held back at RLock while the writer had or awaited it.
Unlock == mu' = [mu EXCEPT !.writer = 0, !.readers = WaitingReaders]

\* A reader admitted by Unlock stands behind its RLock.
Admitted(r) ==
    IF r.pc = "call_peek" THEN [r EXCEPT !.pc = "lpeek_read"]
    ELSE IF r.pc = "call_bytes" THEN [r EXCEPT !.pc = "lbytes_len"]
    ELSE r

\* The return of a writer: its locals are gone, the admitted readers go on.
WriterReturns(t, label) ==
    rt' = [u \in Tasks |-> IF u = t THEN [NoRingLocals EXCEPT !.pc = label]
                           ELSE Admitted(rt[u])]

RUnlock(t) == mu' = [mu EXCEPT !.readers = @ \ {t}]

\* Push, lines 38-39: mu.Lock(); the item is the number of the call, by a goroutine that stands at from.
LPushLockAt(t, from) ==
    /\ RingAt(t, from)
    /\ npush < MaxPushes
    /\ RWMutex_CanLock(mu)
    /\ mu' = [mu EXCEPT !.writer = t]
    /\ rt' = [rt EXCEPT ![t] = [NoRingLocals EXCEPT !.pc = "lpush_store",
                                                    !.item = NextItem]]
    /\ npush' = npush + 1
    /\ UNCHANGED <<locked, fifo, out, popped>>
    /\ LockFrame

LPushLock(t) == LPushLockAt(t, "idle")

\* Push, lines 41-42: data[writePos] = item; writePos = (writePos + 1) % size.
LPushStore(t) ==
    /\ RingAt(t, "lpush_store")
    /\ locked' = [locked EXCEPT !.data[locked.writePos + 1] = rt[t].item,
                                !.writePos = (locked.writePos + 1) % locked.size]
    /\ RingGoes(t, "lpush_count")
    /\ UNCHANGED <<mu, npush, fifo, out, popped>>
    /\ LockFrame

\* Push, lines 44-49: count++ below size, else readPos advances; return.
LPushCount(t) ==
    /\ RingAt(t, "lpush_count")
    /\ locked' = IF locked.count < locked.size
                 THEN [locked EXCEPT !.count = @ + 1]
                 ELSE [locked EXCEPT !.readPos = (@ + 1) % locked.size]
    /\ Unlock
    /\ fifo' = FifoPush(fifo, locked.size, rt[t].item)
    /\ WriterReturns(t, "idle")
    /\ out' = [op |-> "Push", a |-> 0, b |-> 0]
    /\ UNCHANGED <<npush, popped>>
    /\ LockFrame

\* Pop, line 55: mu.Lock(), by a goroutine that stands at from.
LPopLockAt(t, from) ==
    /\ RingAt(t, from)
    /\ RWMutex_CanLock(mu)
    /\ mu' = [mu EXCEPT !.writer = t]
    /\ RingGoes(t, "lpop_read")
    /\ UNCHANGED <<locked, npush, fifo, out, popped>>
    /\ LockFrame

LPopLock(t) == LPopLockAt(t, "idle")

\* Pop, lines 58-63: an empty queue returns (zero, false), after which the
\* caller stands at rest; otherwise item := data[readPos].
LPopRead(t, rest) ==
    /\ RingAt(t, "lpop_read")
    /\ IF locked.count = 0
       THEN /\ Unlock
            /\ WriterReturns(t, rest)
            /\ out' = [op |-> "Pop", a |-> FifoPeek(fifo),
                       b |-> [item |-> 0, ok |-> FALSE]]
            /\ fifo' = FifoPop(fifo)
       ELSE /\ rt' = [rt EXCEPT ![t].pc = "lpop_zero",
                                ![t].item = locked.data[locked.readPos + 1]]
            /\ UNCHANGED <<mu, out, fifo>>
    /\ UNCHANGED <<locked, npush, popped>>
    /\ LockFrame

\* Pop, lines 64-65: data[readPos] = zero; readPos = (readPos + 1) % size.
LPopZero(t) ==
    /\ RingAt(t, "lpop_zero")
    /\ locked' = [locked EXCEPT !.data[locked.readPos + 1] = 0,
                                !.readPos = (locked.readPos + 1) % locked.size]
    /\ RingGoes(t, "lpop_count")
    /\ UNCHANGED <<mu, npush, fifo, out, popped>>
    /\ LockFrame

\* Pop, lines 66-68: count--; return item, true.
LPopCount(t) ==
    /\ RingAt(t, "lpop_count")
    /\ locked' = [locked EXCEPT !.count = @ - 1]
    /\ Unlock
    /\ WriterReturns(t, "idle")
    /\ out' = [op |-> "Pop", a |-> FifoPeek(fifo),
               b |-> [item |-> rt[t].item, ok |-> TRUE]]
    /\ fifo' = FifoPop(fifo)
    /\ popped' = Append(popped, rt[t].item)
    /\ npush' = npush
    /\ LockFrame

\* Peek, line 74: mu.RLock(), by a goroutine that stands at from.
LPeekLockAt(t, from) ==
    /\ RingAt(t, from)
    /\ RWMutex_CanRLock(mu)
    /\ mu' = [mu EXCEPT !.readers = @ \cup {t}]
    /\ RingGoes(t, "lpeek_read")
    /\ UNCHANGED <<locked, npush, fifo, out, popped>>
    /\ LockFrame

LPeekLock(t) == LPeekLockAt(t, "idle")

\* Peek, lines 77-82: (zero, false) or (data[readPos], true).
LPeekRead(t) ==
    /\ RingAt(t, "lpeek_read")
    /\ RingReturns(t, "idle")
    /\ out' = [op |-> "Peek", a |-> FifoPeek(fifo), b |-> LockedRingQueue_Peek(locked)]
    /\ RUnlock(t)
    /\ UNCHANGED <<locked, npush, fifo, popped>>
    /\ LockFrame

\* Bytes, line 87: mu.RLock(), by a goroutine that stands at from.
LBytesLockAt(t, from) ==
    /\ RingAt(t, from)
    /\ RWMutex_CanRLock(mu)
    /\ mu' = [mu EXCEPT !.readers = @ \cup {t}]
    /\ RingGoes(t, "lbytes_len")
    /\ UNCHANGED <<locked, npush, fifo, out, popped>>
    /\ LockFrame

LBytesLock(t) == LBytesLockAt(t, "idle")

\* Bytes, lines 90-94: an empty queue returns nil; otherwise
\* result := make([]T, count).
LBytesLen(t) ==
    /\ RingAt(t, "lbytes_len")
    /\ IF locked.count = 0
       THEN /\ RUnlock(t)
            /\ RingReturns(t, "idle")
            /\ out' = [op |-> "Snapshot", a |-> fifo, b |-> <<>>]
       ELSE /\ rt' = [rt EXCEPT ![t].pc = "lbytes_copy", ![t].i = 0,
                                ![t].res = [k \in 1..locked.count |-> 0]]
            /\ UNCHANGED <<mu, out>>
    /\ UNCHANGED <<locked, npush, fifo, popped>>
    /\ LockFrame

\* Bytes, lines 95-100: while i < count, result[i] = data[(readPos + i) %
\* size] (an index beyond the result panics); then return result.
LBytesCopy(t) ==
    /\ RingAt(t, "lbytes_copy")
    /\ LET i == rt[t].i IN
       IF i < locked.count
       THEN /\ IF i < Len(rt[t].res)
               THEN rt' = [rt EXCEPT ![t].i = i + 1,
                                     ![t].res[i + 1] =
                                        locked.data[((locked.readPos + i)
                                                        % locked.size) + 1]]
               ELSE RingGoes(t, "panicked")
            /\ UNCHANGED <<mu, out>>
       ELSE /\ RUnlock(t)
            /\ RingReturns(t, "idle")
            /\ out' = [op |-> "Snapshot", a |-> fifo, b |-> rt[t].res]
    /\ UNCHANGED <<locked, npush, fifo, popped>>
    /\ LockFrame

\* Clear, line 131: mu.Lock(), by a goroutine that stands at from.
LClearLockAt(t, from) ==
    /\ RingAt(t, from)
    /\ RWMutex_CanLock(mu)
    /\ mu' = [mu EXCEPT !.writer = t]
    /\ rt' = [rt EXCEPT ![t].pc = "lclear_zero", ![t].i = 0]
    /\ UNCHANGED <<locked, npush, fifo, out, popped>>
    /\ LockFrame

LClearLock(t) == LClearLockAt(t, "idle")

\* Clear, lines 135-137: data[i] = zero for every slot.
LClearZero(t) ==
    /\ RingAt(t, "lclear_zero")
    /\ rt[t].i < locked.size
    /\ locked' = [locked EXCEPT !.data[rt[t].i + 1] = 0]
    /\ rt' = [rt EXCEPT ![t].i = @ + 1]
    /\ UNCHANGED <<mu, npush, fifo, out, popped>>
    /\ LockFrame

\* Clear, lines 138-140: writePos, readPos and count are reset; return.
LClearReset(t) ==
    /\ RingAt(t, "lclear_zero")
    /\ rt[t].i = locked.size
    /\ locked' = [locked EXCEPT !.writePos = 0, !.readPos = 0, !.count = 0]
    /\ Unlock
    /\ fifo' = <<>>
    /\ WriterReturns(t, "idle")
    /\ out' = [op |-> "Clear", a |-> 0, b |-> 0]
    /\ UNCHANGED <<npush, popped>>
    /\ LockFrame

\* Concurrent pushers, poppers, peekers, readers and clearers.
LockedRacePush(t) == npush < MaxRacePushes /\ LPushLock(t)

NextLockedRace ==
    \/ \E t \in Tasks : LockedRacePush(t)
    \/ \E t \in Tasks : LPushStore(t)
    \/ \E t \in Tasks : LPushCount(t)
    \/ \E t \in Tasks : LPopLock(t)
    \/ \E t \in Tasks : LPopRead(t, "idle")
    \/ \E t \in Tasks : LPopZero(t)
    \/ \E t \in Tasks : LPopCount(t)
    \/ \E t \in Tasks : LPeekLock(t)
    \/ \E t \in Tasks : LPeekRead(t)
    \/ \E t \in Tasks : LBytesLock(t)
    \/ \E t \in Tasks : LBytesLen(t)
    \/ \E t \in Tasks : LBytesCopy(t)
    \/ \E t \in Tasks : LClearLock(t)
    \/ \E t \in Tasks : LClearZero(t)
    \/ \E t \in Tasks : LClearReset(t)

SpecLockedRace == InitRings /\ [][NextLockedRace]_vars

\* One caller fills the mutex-guarded ring; then the goroutines pop until
\* Pop reports an empty ring, and no Push runs any more.
DrainFill ==
    /\ \A t \in Tasks : RingAt(t, "idle")
    /\ popped = <<>>
    /\ LockedPush

NextDrain ==
    \/ DrainFill
    \/ \E t \in Tasks : LPopLock(t)
    \/ \E t \in Tasks : LPopRead(t, "done")
    \/ \E t \in Tasks : LPopZero(t)
    \/ \E t \in Tasks : LPopCount(t)

SpecDrain == InitRings /\ [][NextDrain]_vars

\* Concurrent pushers and readers, no Clear.
NextSnapshots ==
    \/ \E t \in Tasks : RacePushClaim(t)
    \/ \E t \in Tasks : PushStore(t)
    \/ \E t \in Tasks : BytesCursor(t)
    \/ \E t \in Tasks : BytesCopy(t)

SpecSnapshots == InitRings /\ [][NextSnapshots]_vars

\* ------------------------------------------------------------------ raw callers

\* The call budget of the raw callers.
RawBudget == recentLengths.writePos + totalPut + discardedCount < MaxRawCalls

RawFrame == UNCHANGED <<handleVars, task, ringsOnly, config>>

\* Put lines 179-181: the slice is resliced and handed to the cache; no
\* statement of Put writes to its bytes.
BytesAfterPut(buf) == written

\* buf := pool.Get(n): a slice made by Get is zeroed (make), a cached one comes
\* back with the bytes it had.
RawGet(n) ==
    /\ Get(n)
    /\ call' = [op |-> "Get", n |-> n, buf |-> NilBuf]
    /\ held' = IF ret' = NilBuf THEN held ELSE held \cup {ret'}
    /\ got' = IF ret' = NilBuf THEN got
              ELSE Append(got, [buf |-> ret', gets |-> totalGet, puts |-> totalPut])
    /\ asked' = IF n > 0 THEN Append(asked, n) ELSE asked
    /\ written' = written
    /\ RawFrame

\* The holder of a slice writes its own bytes into it.
RawWrite(b) ==
    /\ b.id \notin written
    /\ written' = written \cup {b.id}
    /\ call' = [op |-> "Write", n |-> 0, buf |-> b]
    /\ ret' = NilBuf
    /\ UNCHANGED <<poolVars, nextId, held, asked, got>>
    /\ RawFrame

\* pool.Put(b) of a slice the caller holds; nothing takes the slice variable
\* from the caller, who forgets it or keeps it.
RawPut(b, keep) ==
    /\ Put(b)
    /\ call' = [op |-> "Put", n |-> 0, buf |-> b]
    /\ ret' = NilBuf
    /\ held' = IF keep THEN held ELSE held \ {b}
    /\ written' = BytesAfterPut(b)
    /\ UNCHANGED <<nextId, asked, got>>
    /\ RawFrame

\* Callers that write into what they hold and forget what they put back.
NextContent ==
    \/ Budget /\ \E n \in Lengths : RawGet(n)
    \/ \E b \in held : RawWrite(b)
    \/ Budget /\ \E b \in held : RawPut(b, FALSE)

SpecContent == Init /\ [][NextContent]_vars

\* Callers that keep what they put back and put it back again.
NextRaw ==
    \/ RawBudget /\ \E n \in Lengths : RawGet(n)
    \/ RawBudget /\ \E b \in held : RawPut(b, TRUE)

SpecRaw == Init /\ [][NextRaw]_vars

\* ------------------------------------------------------------------ NewPools and its options

\* An Option is a closure that assigns p.recentLengths: it is modelled by the
\* ring it installs, q, and by the name of the object that ring is, uses.
QueueTypes == {"LockFreeRingQueue", "MutexRingQueue", "other"}

\* WithRingQueueType, lines 52-63: a new mutex-guarded ring for
\* MutexRingQueue, a new lock-free ring for every other value.
WithRingQueueType(queueType) ==
    IF queueType = "MutexRingQueue"
    THEN [uses |-> "mutex", q |-> NewLockedRingQueue(RingSize)]
    ELSE [uses |-> "lockfree", q |-> NewRingQueue(RingSize)]

\* WithRingQueue, lines 45-49: the caller's ring, as it is.
WithRingQueue(ringQueuer) == [uses |-> "custom", q |-> ringQueuer]

\* The rings a caller hands in: of a capacity of its own (part_004:117 has
\* NewLockedRingQueue[int](10)), new or already pushed to by the caller.
CustomRingSize == RingSize + 1

EarlierValue == SetMax(ClassVals) + 2

CustomRings ==
    {NewLockedRingQueue(CustomRingSize),
     LockedRingQueue_Push(NewLockedRingQueue(CustomRingSize), EarlierValue)}

Options ==
    {WithRingQueueType(t) : t \in QueueTypes} \cup {WithRingQueue(q) : q \in CustomRings}

OptionLists == UNION {[1..k -> Options] : k \in 0..MaxOptions}

\* NewPools line 77: the ring the struct literal starts with.
DefaultRing == [uses |-> "default", q |-> NewRingQueue(RingSize)]

\* A mutant of ApplyOpts: the first option that sets the ring is final.
ApplyOptsFirstWins(r, opts) == IF opts = <<>> THEN r ELSE Head(opts)

\* NewPools lines 79-81: for _, opt := range opts { opt(&pool) }.
RECURSIVE ApplyOpts(_, _)
ApplyOpts(r, opts) == IF opts = <<>> THEN r ELSE ApplyOpts(Head(opts), Tail(opts))

\* A mutant of NewPoolsPanics: a list of one class is refused too.
NewPoolsPanicsOnOne(arg) == Len(arg) <= 1

\* NewPools lines 68-71: if l < 1 { panic("sizes is empty") }.
NewPoolsPanics(arg) == Len(arg) < 1

\* No pool has been constructed.
NoPool ==
    /\ sizes = <<>>
    /\ maxPoolSize = 0
    /\ pools = <<>>
    /\ stats = <<>>
    /\ discardedCount = 0
    /\ totalGet = 0
    /\ totalPut = 0
    /\ recentLengths = NewRingQueue(0)

NotBuilt == [state |-> "new", sizes |-> <<>>, opts |-> <<>>, uses |-> "none"]

\* p := NewPools(arg, opts...), as one call.
NewPoolsCall(arg, opts) ==
    /\ config.state = "new"
    /\ IF NewPoolsPanics(arg)
       THEN /\ config' = [state |-> "panicked", sizes |-> arg, opts |-> opts,
                          uses |-> "none"]
            /\ UNCHANGED poolVars
       ELSE LET r == ApplyOpts(DefaultRing, opts) IN
            /\ recentLengths' = r.q
            /\ config' = [state |-> "built", sizes |-> arg, opts |-> opts,
                          uses |-> r.uses]
            /\ sizes' = SortedSizes(arg)
            /\ maxPoolSize' = SortedSizes(arg)[Len(arg)]
            /\ pools' = [c \in Range(arg) |-> EmptyBag]
            /\ stats' = [c \in Range(arg) |-> [Get |-> 0, Put |-> 0]]
            /\ discardedCount' = 0
            /\ totalGet' = 0
            /\ totalPut' = 0
    /\ UNCHANGED <<callerVars, handleVars, task, ringsOnly, written, got>>

Built == config.state = "built"

\* The call budget of the callers of a pool built with options.
ConfigBudget == totalGet + totalPut + discardedCount < MaxConfigCalls

\* Lengths asked of such a pool: one a class serves, one beyond every class.
ConfigLengths == {SetMin(ClassVals), SetMax(ClassVals) + 1}

\* stats := p.GetPoolStats(); the snapshot of the ring is kept in out.
ConfigStats ==
    /\ Built
    /\ call.op # "Stats"
    /\ call' = [op |-> "Stats", n |-> 0, buf |-> NilBuf]
    /\ ret' = NilBuf
    /\ out' = [op |-> "Stats", a |-> 0, b |-> GetPoolStats.recent_lengths]
    /\ UNCHANGED <<poolVars, nextId, held, asked, handleVars, task, ring, locked, npush,
                   pushed, fifo, rt, touched, mu, popped, config, written, got>>

InitConfig == NoPool /\ Quiet /\ RingsFresh(RingSize) /\ config = NotBuilt

NextConfig ==
    \/ /\ config.state = "new"
       /\ \E arg \in SizeLists \cup {<<>>} : \E opts \in OptionLists :
              NewPoolsCall(arg, opts)
    \/ Built /\ ConfigBudget /\ \E n \in ConfigLengths : RawGet(n)
    \/ Built /\ ConfigBudget /\ \E b \in held : RawPut(b, FALSE)
    \/ ConfigStats

SpecConfig == InitConfig /\ [][NextConfig]_vars

\* ------------------------------------------------------------------ the mutex-guarded ring, calls that wait

\* A goroutine first makes its call and then stands at mu.Lock() or
\* mu.RLock() until the mutex is granted; the steps after the grant are those
\* above.  Pushes are budgeted when they are called.
PushesCalled == npush + Cardinality({t \in Tasks : RingAt(t, "call_push")})

LockedCalls == {"call_push", "call_pop", "call_peek", "call_bytes", "call_clear"}

LCall(t, op) ==
    /\ RingAt(t, "idle")
    /\ op = "call_push" => PushesCalled < MaxFairPushes
    /\ RingGoes(t, op)
    /\ UNCHANGED <<locked, npush, fifo, out, popped, mu>>
    /\ LockFrame

\* The mutex is granted to goroutine t, which waits in its call; a reader is
\* held back while a writer waits (RLock blocks once a Lock is pending).
LAcquire(t) ==
    \/ LPushLockAt(t, "call_push")
    \/ LPopLockAt(t, "call_pop")
    \/ ~WriterWaits /\ LPeekLockAt(t, "call_peek")
    \/ ~WriterWaits /\ LBytesLockAt(t, "call_bytes")
    \/ LClearLockAt(t, "call_clear")

\* The steps goroutine t takes while it holds the mutex, the return included.
LRun(t) ==
    \/ LPushStore(t)
    \/ LPushCount(t)
    \/ LPopRead(t, "idle")
    \/ LPopZero(t)
    \/ LPopCount(t)
    \/ LPeekRead(t)
    \/ LBytesLen(t)
    \/ LBytesCopy(t)
    \/ LClearZero(t)
    \/ LClearReset(t)

NextLockedCalls ==
    \/ \E t \in Tasks : \E op \in LockedCalls : LCall(t, op)
    \/ \E t \in Tasks : LAcquire(t)
    \/ \E t \in Tasks : LRun(t)

\* The ring of these goroutines has one slot: every Push after the first
\* overwrites, every Bytes copies one element.
InitLockedCalls == NewPools(HandleSizes) /\ Quiet /\ RingsNew(1)

SpecLockedCalls == InitLockedCalls /\ [][NextLockedCalls]_vars

\* The scheduler runs every goroutine that can take a step (weak fairness);
\* sync.RWMutex lets no goroutine wait for ever at a mutex that keeps being
\* released (a waiting writer holds back later readers, a starved waiter is
\* handed the mutex), which is strong fairness of the grant.
FairLockedCalls ==
    \A t \in Tasks : WF_rt(LRun(t)) /\ SF_rt(LAcquire(t))

SpecLockedCallsFair == SpecLockedCalls /\ FairLockedCalls

\* ------------------------------------------------------------------ properties

\* The configured classes, and the class a request of n bytes belongs to.
Classes == Range(sizes)

MaxClass == SetMax(Classes)

ClassOf(n) == SetMin({c \in Classes : c >= n})

\* Backing arrays some cache, some caller or some handle still refers to.
UsedIds ==
    {b.id : b \in held}
    \cup UNION {{b.id : b \in BagToSet(pools[c])} : c \in DOMAIN pools}
    \cup UNION {{b.id : b \in Range(bufs[h].buf)} : h \in DOMAIN bufs}

\* The last n elements of s (all of s when it is shorter).
LastN(s, n) == IF Len(s) <= n THEN s ELSE SubSeq(s, Len(s) - n + 1, Len(s))

\* Some thread is inside a Release of handle h (between its decrement and the
\* end of the call).
Releasing(h) ==
    \E t \in Threads : pc[t] \in {"rel_swap", "rel_put"} /\ loc[t].h = h

\* Some thread is inside a Bytes call on handle h.
Viewing(h) == \E t \in Threads : pc[t] = "bytes_load" /\ loc[t].h = h

\* Every reference to handle h has been released and every call on it is over.
AllReleased(h) ==
    /\ \A t \in Threads : ~Holds(t, h)
    /\ ~Releasing(h)
    /\ ~Viewing(h)

\* C1: a handle from GetBuffer whose count was brought to N by N-1 Retain
\* calls and whose N holders each Release once: in every interleaving of the
\* decrements and the cell exchanges Put is invoked with the handle's slice
\* exactly once, and not before the Nth decrement.
C1_PutOnceAfterLastRelease ==
    \A h \in Handles :
        /\ hist[h].puts <= 1
        /\ (hist[h].puts = 1 \/ \E t \in Threads : pc[t] = "rel_put" /\ loc[t].h = h)
              => hist[h].decs = 1 + hist[h].retains
        /\ AllReleased(h) => hist[h].puts = 1
        /\ \A t \in Threads :
              (pc[t] = "rel_put" /\ loc[t].h = h)
                  => (hist[h].puts = 0 /\ loc[t].buf = hist[h].data)

\* C1 witness: three references, all released, the slice handed to Put.
C1_Witness ==
    \E h \in Handles :
        /\ hist[h].retains >= 2
        /\ hist[h].decs = 1 + hist[h].retains
        /\ AllReleased(h)
        /\ hist[h].puts = 1
        /\ \E t, u \in Threads : t # u /\ refs[t][h] = 0 /\ refs[u][h] = 0

\* C2: for every handle and every interleaving of Retain, Release and Bytes
\* calls on it, also more releases than references and calls after the count
\* reached zero, the cell is emptied at most once, never refilled, and Put is
\* invoked for the handle at most once.
C2_HandOffAtMostOnce ==
    /\ [](\A h \in Handles : hist[h].emptied <= 1 /\ hist[h].puts <= 1)
    /\ [][\A h \in Handles : bufs[h].buf = <<>> => bufs'[h].buf = <<>>]_vars

\* C2 witness: the count has crossed zero, come back and gone below zero, with
\* the cell emptied and Put invoked.
C2_Witness ==
    \E h \in Handles :
        /\ hist[h].puts = 1
        /\ hist[h].emptied = 1
        /\ hist[h].retains >= 1
        /\ hist[h].decs > 1 + hist[h].retains
        /\ bufs[h].refCount < 0

\* C3: under the protocol, while a reference to a handle is unreleased its cell
\* is non-empty and Put has not been invoked for its slice.
C3_NoReturnWhileHeld ==
    \A h \in Handles :
        (\E t \in Threads : Holds(t, h))
            => /\ bufs[h].buf # <<>>
               /\ hist[h].puts = 0
               /\ ~Releasing(h)

\* C3 witness: of three references two are released, one is still held.
C3_Witness ==
    \E h \in Handles :
        /\ hist[h].retains = 2
        /\ hist[h].decs = 2
        /\ \E t \in Threads : Holds(t, h)
        /\ bufs[h].refCount = 1

\* C4: under the protocol and weak fairness, every holder releasing, the
\* slice of a handle is eventually handed to Put (the handle is released);
\* a handle that is never retained is released by its single Release.
Released(h) == h \in Handles /\ hist[h].puts = 1 /\ bufs[h].buf = <<>>

C4_EventuallyReleased ==
    /\ (Handles # {}) ~> (\A h \in Handles : Released(h))
    /\ [](\A h \in Handles :
            (hist[h].retains = 0 /\ hist[h].decs = 1 /\ ~Releasing(h))
                => Released(h))

\* C4 witness: a handle released after its count had been raised, and the
\* slice is back in the cache of its class.
C4_Witness ==
    \E h \in Handles :
        /\ Released(h)
        /\ hist[h].retains >= 1
        /\ totalPut = 1

\* C5: for every class list and every 0 < n <= largest class, Get(n) returns a
\* slice of length exactly n whose capacity is the smallest configured class
\* >= n, whatever Get and Put calls came before.
C5_GetReturnsSmallestClass ==
    (call.op = "Get" /\ call.n > 0 /\ call.n <= MaxClass)
        => (ret.len = call.n /\ ret.cap = ClassOf(call.n))

\* C5 witness: a Get served, after an earlier Put, from a class that is neither
\* the requested length nor the largest class.
C5_Witness ==
    /\ call.op = "Get"
    /\ call.n > 0
    /\ call.n < ret.cap
    /\ ret.cap < MaxClass
    /\ totalPut > 0

\* C6: Get(maxClass) is served from the largest class (totalGet and that class's
\* get-counter rise by 1, discardedCount stays), while Get(n) with n > maxClass
\* raises discardedCount by exactly 1, leaves totalGet, totalPut, every class
\* counter and every cache alone and returns a fresh slice of length and
\* capacity n.
C6_MaxClassPooledBeyondDiscarded ==
    [][/\ (call'.op = "Get" /\ call'.n = MaxClass)
            => /\ totalGet' = totalGet + 1
               /\ stats' = [stats EXCEPT ![MaxClass].Get = @ + 1]
               /\ discardedCount' = discardedCount
               /\ ret'.cap = MaxClass
       /\ (call'.op = "Get" /\ call'.n > MaxClass)
            => /\ discardedCount' = discardedCount + 1
               /\ UNCHANGED <<totalGet, totalPut, stats, pools>>
               /\ ret'.len = call'.n
               /\ ret'.cap = call'.n
               /\ ret'.id \notin UsedIds
      ]_vars

\* C6 witness: a discarded Get(n > maxClass) in a pool whose largest class has
\* already served a Get(maxClass).
C6_Witness ==
    /\ call.op = "Get"
    /\ call.n > MaxClass
    /\ discardedCount = 1
    /\ stats[MaxClass].Get = 1
    /\ \E i \in DOMAIN asked : asked[i] = MaxClass

\* C7: every Get(n) with n > 0 pushes n onto the statistics ring, served or
\* discarded; in a sequential run the snapshot Stats reports is the requested
\* lengths in call order, limited to the most recent RingSize.
C7_RingRecordsEveryRequest ==
    /\ recentLengths.writePos = Len(asked)
    /\ GetPoolStats.recent_lengths = LastN(asked, recentLengths.size)

\* C7 witness: more requests than the ring holds, one of them discarded as too
\* large and one of them served.
C7_Witness ==
    /\ Len(asked) > recentLengths.size
    /\ \E i \in DOMAIN asked : asked[i] > MaxClass
    /\ \E i \in DOMAIN asked : asked[i] <= MaxClass
    /\ asked[1] # asked[Len(asked)]

\* C8: Get(n) with n <= 0 returns the empty slice and leaves the whole pool
\* state alone: no counter, no cache, nothing pushed onto the ring.
C8_GetNonPositiveIsNoop ==
    [][(call'.op = "Get" /\ call'.n <= 0)
          => (ret' = NilBuf /\ UNCHANGED poolVars)]_vars

\* C8 witness: Get(0) called on a pool that has already served and taken back
\* a slice.
C8_Witness ==
    /\ call.op = "Get"
    /\ call.n = 0
    /\ totalGet > 0
    /\ totalPut > 0

\* C9: a Put of a slice whose capacity is a configured class c raises c's
\* put-counter and totalPut by exactly 1, caches the slice with its view reset
\* to the full capacity c in class c, and changes nothing else; so Put(Get(n)),
\* 0 < n <= maxClass, gives the slice back to the class it was taken from, whose
\* get-counter the Get raised by the same 1.
C9_PutReturnsToItsClass ==
    [][/\ (call'.op = "Put" /\ call'.buf.cap \in Classes)
            => LET c == call'.buf.cap IN
               /\ stats' = [stats EXCEPT ![c].Put = @ + 1]
               /\ totalPut' = totalPut + 1
               /\ pools' = [pools EXCEPT
                              ![c] = @ (+) SetToBag({[id |-> call'.buf.id,
                                                     len |-> c, cap |-> c]})]
               /\ UNCHANGED <<sizes, maxPoolSize, discardedCount, totalGet,
                              recentLengths>>
       /\ (call'.op = "Get" /\ call'.n > 0 /\ call'.n <= MaxClass)
            => stats' = [stats EXCEPT ![ClassOf(call'.n)].Get = @ + 1]
       /\ (/\ call.op = "Get" /\ call.n > 0 /\ call.n <= MaxClass
           /\ call'.op = "Put" /\ call'.buf = ret)
            => LET c == ClassOf(call.n) IN
               /\ stats'[c].Put = stats[c].Put + 1
               /\ BagIn([id |-> ret.id, len |-> c, cap |-> c], pools'[c])
      ]_vars

\* C9 witness: Put(Get(n)) with n below the class capacity has put the slice,
\* at full length, into the cache of its class.
C9_Witness ==
    /\ call.op = "Put"
    /\ call.buf.cap \in Classes
    /\ call.buf.len > 0
    /\ call.buf.len < call.buf.cap
    /\ BagIn([call.buf EXCEPT !.len = call.buf.cap], pools[call.buf.cap])
    /\ stats[call.buf.cap].Get = stats[call.buf.cap].Put

\* C10: Put calls with a slice whose capacity exceeds the largest class raise
\* discardedCount by 1 per call and never change totalPut, totalGet, a class
\* counter, a cache or the statistics ring.
C10_OversizedPutOnlyDiscards ==
    [][(call'.op = "Put" /\ call'.buf.cap > MaxClass)
          => /\ discardedCount' = discardedCount + 1
             /\ UNCHANGED <<totalPut, totalGet, stats, pools, recentLengths>>
      ]_vars

\* C10 witness: the second oversized Put in a row.
C10_Witness ==
    /\ call.op = "Put"
    /\ call.buf.cap > MaxClass
    /\ discardedCount >= 2
    /\ asked = <<>>

\* C11: a Put of a slice whose capacity is positive, at most the largest class
\* and equal to no configured class leaves the whole pool state as it was: no
\* cache takes it and neither discardedCount nor totalPut nor a class counter
\* nor the ring changes.
C11_OrphanPutIsDropped ==
    [][(/\ call'.op = "Put"
        /\ call'.buf.cap > 0
        /\ call'.buf.cap <= MaxClass
        /\ call'.buf.cap \notin Classes)
          => UNCHANGED poolVars]_vars

\* C11 witness: a slice of capacity 3 put into a pool of classes 2 and 4 that
\* has already served, taken back and discarded slices.
C11_Witness ==
    /\ call.op = "Put"
    /\ call.buf.cap > SetMin(Classes)
    /\ call.buf.cap < MaxClass
    /\ call.buf.cap \notin Classes
    /\ call.buf.len = call.buf.cap
    /\ totalGet > 0
    /\ totalPut > 0

\* C12: with k handles created by GetBuffer(n), 0 < n <= largest class, and j
\* of them released (one Release each, no Retain), totalGet = k and
\* totalPut = j: totalPut is 0 before any release and equals totalGet once
\* every handle is released.
ReleasedHandles == {h \in Handles : hist[h].decs = 1}

C12_CountersFollowHandles ==
    /\ totalGet = Len(bufs)
    /\ totalPut = Cardinality(ReleasedHandles)
    /\ ReleasedHandles = {h \in Handles : ~Holds(1, h)}

\* C12 witness: three handles of two classes, the first and the last released,
\* the second still held.
C12_Witness ==
    /\ Len(bufs) = 3
    /\ ReleasedHandles = {1, 3}
    /\ totalGet = 3
    /\ totalPut = 2
    /\ stats[2].Get > 0
    /\ stats[4].Get > 0

\* C13: tasks running cycles of Get(n), 0 < n <= largest class, followed by Put
\* of the slice returned: once every task has finished its cycles
\* totalGet = totalPut = tasks * cycles and every class's get-counter equals
\* its put-counter; in no interleaving is an increment lost, each counter
\* always being the number of increments the tasks have performed on it.
Past(t, labels) == IF task[t].pc \in labels THEN 1 ELSE 0

\* Increments of totalGet and of totalPut the tasks have performed so far.
GetsCounted ==
    SumOver([t \in Tasks |-> task[t].cycles
                               + Past(t, {"get_pool", "put_count", "put_total", "put_pool"})],
            NumTasks)

PutsCounted ==
    SumOver([t \in Tasks |-> task[t].cycles + Past(t, {"put_pool"})], NumTasks)

TasksFinished == \A t \in Tasks : TaskAt(t, "idle") /\ task[t].cycles = MaxCycles

TasksQuiet == \A t \in Tasks : TaskAt(t, "idle")

C13_NoIncrementLost ==
    /\ totalGet = GetsCounted
    /\ totalPut = PutsCounted
    /\ TasksQuiet => \A c \in Classes : stats[c].Get = stats[c].Put
    /\ TasksFinished
          => /\ totalGet = NumTasks * MaxCycles
             /\ totalPut = NumTasks * MaxCycles
             /\ \A c \in Classes : stats[c].Get = stats[c].Put

\* C13 witness: every task has finished, both classes were used, and the ring
\* shows that the calls overlapped: its slots were stored against claim order.
C13_Witness ==
    /\ TasksFinished
    /\ totalGet = NumTasks * MaxCycles
    /\ \A c \in Classes : stats[c].Get > 0
    /\ recentLengths.writePos = NumTasks * MaxCycles
    /\ recentLengths.data[1] = TaskLength(2, 0)

\* A handle of pooled size: created by GetBuffer(n) with 0 < n <= largest class.
PooledHandle(h) == hist[h].data.len > 0 /\ hist[h].data.len <= MaxClass

\* Pooled-size handles whose storage cell is not empty.
LiveHandles == {h \in Handles : PooledHandle(h) /\ bufs[h].buf # <<>>}

\* Goroutines inside the last Release of a pooled-size handle, after the cell
\* exchange and before Put has counted the slice.
HandOffs == {t \in Tasks : pc[t] = "rel_put" /\ loc[t].buf.cap \in Classes}

C15_SnapshotIsLastPushed ==
    /\ RingQueue_Bytes(ring) = LastN(pushed, ring.size)
    /\ out.op = "Snapshot" => out.a = LastN(pushed, ring.size)
    /\ Len(pushed) <= ring.size => RingQueue_Bytes(ring) = pushed
    /\ Len(RingQueue_Bytes(ring)) = SetMin({Len(pushed), ring.size})

\* C15 witness: a Snapshot of a ring of capacity above 1 that has wrapped on
\* a slot other than its first, with no Clear before.
C15_Witness ==
    /\ out.op = "Snapshot"
    /\ ring.size > 1
    /\ Len(pushed) > ring.size
    /\ Len(pushed) = npush
    /\ Len(pushed) % ring.size # 0
    /\ out.a[1] = npush - ring.size + 1

\* C16: the mutex-guarded ring of capacity C behaves, for every sequence of
\* Push, Pop, Peek, Clear and Snapshot, like a bounded FIFO sequence that drops
\* its oldest element when a Push finds it full: Snapshot is that sequence,
\* oldest first, and Pop and Peek give its head (pushing 1..C+4 yields
\* [5..C+4]).
C16_LockedRingIsBoundedFifo ==
    /\ LockedRingQueue_Bytes(locked) = fifo
    /\ LockedRingQueue_Len(locked) = Len(fifo)
    /\ out.op \in {"Pop", "Peek", "Snapshot"} => out.a = out.b

\* C16 witness: the Snapshot after 1..C+4 were pushed is [5..C+4], C above 1.
C16_Witness ==
    /\ out.op = "Snapshot"
    /\ locked.size > 1
    /\ npush = locked.size + 4
    /\ out.b = [i \in 1..locked.size |-> i + 4]

\* C17: under sequential use the lock-free and the mutex-guarded ring cannot
\* be told apart: for every capacity and every sequence of Push, Clear,
\* Snapshot, Len, Cap, IsFull and IsEmpty calls made on both, each Snapshot,
\* Len, Cap, IsFull and IsEmpty call returns the same from both.
C17_RingsAnswerAlike ==
    /\ out.op \in {"Snapshot", "Len", "Cap", "IsFull", "IsEmpty"} => out.a = out.b
    /\ RingQueue_Bytes(ring) = LockedRingQueue_Bytes(locked)
    /\ RingQueue_Len(ring) = LockedRingQueue_Len(locked)
    /\ RingQueue_Cap(ring) = LockedRingQueue_Cap(locked)
    /\ RingQueue_IsFull(ring) = LockedRingQueue_IsFull(locked)
    /\ RingQueue_IsEmpty(ring) = LockedRingQueue_IsEmpty(locked)

\* C17 witness: IsFull answered alike by both rings after they have wrapped,
\* were cleared and have wrapped again.
C17_Witness ==
    /\ out.op = "IsFull"
    /\ out.a = TRUE
    /\ out.b = TRUE
    /\ ring.size > 1
    /\ Len(pushed) > ring.size
    /\ npush - Len(pushed) > ring.size

\* Every Push, Bytes and Clear call on the lock-free ring has returned.
RingCallsDone == \A t \in Tasks : RingIdle(t)

\* C18: the lock-free ring of capacity C, once all of M > C concurrently issued
\* Push calls have completed: Snapshot is the values of the last C cursor
\* claims, oldest to newest in claim order, whatever the interleaving of the
\* pushers' claims and stores.
C18_SnapshotIsLastClaims ==
    (RingCallsDone /\ npush > ring.size)
        => RingQueue_Bytes(ring) = LastN(pushed, ring.size)

\* C19: the lock-free ring of capacity C, once all of M concurrently issued
\* Push calls have completed and no Clear ran: the cursor is M, Len is
\* min(M, C), IsFull holds iff M >= C, Snapshot has min(M, C) entries, each a
\* value some Push stored and none an unwritten slot; for M <= C the snapshot
\* holds every pushed value once.
C19_CompletedPushesAreCounted ==
    /\ ring.writePos = npush
    /\ RingCallsDone
          => LET snapshot == RingQueue_Bytes(ring)
                 least == SetMin({npush, ring.size})
             IN /\ RingQueue_Len(ring) = least
                /\ RingQueue_IsFull(ring) <=> npush >= ring.size
                /\ Len(snapshot) = least
                /\ \A i \in DOMAIN snapshot :
                      snapshot[i] # 0 /\ snapshot[i] \in Range(pushed)
                /\ npush <= ring.size
                      => /\ Range(snapshot) = Range(pushed)
                         /\ Cardinality(Range(snapshot)) = npush

\* C19 witness: more pushes than slots have completed, one of them stored
\* against the order of the claims.
C19_Witness ==
    /\ RingCallsDone
    /\ ring.size > 1
    /\ npush > ring.size
    /\ RingQueue_Bytes(ring) # LastN(pushed, ring.size)

\* C20: the lock-free ring under every interleaving of concurrent Push,
\* Snapshot and Clear calls: every slot index a Push or a Snapshot uses lies
\* in [0, C) and every Snapshot result has at most C entries.
C20_NoAccessOutOfBounds ==
    /\ \A k \in touched : 0 <= k /\ k < ring.size
    /\ \A t \in Tasks :
          /\ Len(rt[t].res) <= ring.size
          /\ rt[t].pc = "store" => RingQueue_actualPos(ring, rt[t].pos) \in 0..(ring.size - 1)
          /\ rt[t].pc = "copy"
                => RingQueue_BytesPos(ring, rt[t].cur, rt[t].i) \in 0..(ring.size - 1)

\* C20 witness: a Snapshot of a wrapped ring has returned, of full length and
\* torn: it begins with the value of the last slot, the oldest when it read
\* the cursor, and ends with a slot a concurrent Clear has zeroed.
C20_Witness ==
    \E t \in Tasks :
        /\ rt[t].pc = "idle"
        /\ ring.size > 1
        /\ Len(rt[t].res) = ring.size
        /\ rt[t].res[1] = ring.size
        /\ rt[t].res[ring.size] = 0
        /\ touched = 0..(ring.size - 1)


\* C22: in the mutex-guarded ring a Pop on a non-empty ring returns the
\* oldest surviving element (the head of the snapshot and of the bounded FIFO
\* sequence), leaves the rest of the snapshot in place and lowers Len by
\* exactly 1, so that two successive Pops return elements in push order; a
\* Pop on an empty ring returns (zero, false) and leaves the ring as it was.
C22_PopTakesOldest ==
    [][out'.op = "Pop" =>
         LET before == LockedRingQueue_Bytes(locked)
             after == LockedRingQueue_Bytes(locked')
         IN  IF LockedRingQueue_Len(locked) > 0
             THEN /\ out'.b = [item |-> before[1], ok |-> TRUE]
                  /\ out'.b.item = Head(fifo)
                  /\ after = Tail(before)
                  /\ LockedRingQueue_Len(locked') = LockedRingQueue_Len(locked) - 1
                  /\ (out.op = "Pop" /\ out.b.ok) => out'.b.item > out.b.item
             ELSE /\ out'.b = [item |-> 0, ok |-> FALSE]
                  /\ locked' = locked]_vars

\* A Pop has returned the older of the two elements that survived a third
\* push into a ring of two.
C22_Witness ==
    /\ out.op = "Pop"
    /\ out.b = [item |-> 2, ok |-> TRUE]
    /\ npush = 3
    /\ LockedRingQueue_Bytes(locked) = <<3>>


\* C23: in the mutex-guarded ring a Peek leaves the ring state (and so Len
\* and the snapshot) as it was, returns (zero, false) on an empty ring and
\* otherwise the element a Pop of the same state returns; a Pop that follows
\* a Peek immediately returns the Peek's answer.
C23_PeekOnlyLooks ==
    [][/\ out'.op = "Peek" =>
            /\ locked' = locked
            /\ LockedRingQueue_Len(locked') = LockedRingQueue_Len(locked)
            /\ LockedRingQueue_Bytes(locked') = LockedRingQueue_Bytes(locked)
            /\ out'.b = IF LockedRingQueue_IsEmpty(locked)
                        THEN [item |-> 0, ok |-> FALSE]
                        ELSE LockedRingQueue_PopItem(locked)
            /\ out'.b.ok => out'.b.item = Head(fifo)
       /\ (out.op = "Peek" /\ out'.op = "Pop") => out'.b = out.b]_<<locked, out.op>>

\* A Peek has returned the older element of a full, wrapped ring of two,
\* which is still in the ring.
C23_Witness ==
    /\ out.op = "Peek"
    /\ out.b = [item |-> 2, ok |-> TRUE]
    /\ LockedRingQueue_Bytes(locked) = <<2, 3>>


\* C25: for both rings, used by one caller, Clear leaves exactly the state
\* of a freshly constructed ring of the same capacity (so every later call
\* answers as on a fresh ring, and a second Clear changes nothing):
\* IsEmpty holds, Len is 0 and the snapshot is empty.
C25_ClearIsFresh ==
    [][out'.op = "Clear" =>
          /\ ring' = NewRingQueue(ring.size)
          /\ locked' = NewLockedRingQueue(locked.size)
          /\ RingQueue_IsEmpty(ring') /\ LockedRingQueue_IsEmpty(locked')
          /\ RingQueue_Len(ring') = 0 /\ LockedRingQueue_Len(locked') = 0
          /\ RingQueue_Bytes(ring') = <<>> /\ LockedRingQueue_Bytes(locked') = <<>>
          /\ RingQueue_Clear(ring') = ring'
          /\ LockedRingQueue_Clear(locked') = locked']_<<ring, locked, out.op>>

\* Both rings are back in the constructed state after three pushes into
\* rings of two.
C25_Witness ==
    /\ out.op = "Clear"
    /\ npush = 3
    /\ ring = NewRingQueue(2)
    /\ locked = NewLockedRingQueue(2)

\* C26: for both rings, in every reachable state 0 <= Len <= Cap, IsEmpty
\* holds iff Len is 0, IsFull holds iff Len equals Cap, and Cap is the
\* number of slots the constructor allocated, which no step changes.
C26_RingMeasures ==
    /\ [](/\ 0 <= RingQueue_Len(ring) /\ RingQueue_Len(ring) <= RingQueue_Cap(ring)
          /\ 0 <= LockedRingQueue_Len(locked)
          /\ LockedRingQueue_Len(locked) <= LockedRingQueue_Cap(locked)
          /\ RingQueue_IsEmpty(ring) <=> RingQueue_Len(ring) = 0
          /\ LockedRingQueue_IsEmpty(locked) <=> LockedRingQueue_Len(locked) = 0
          /\ RingQueue_IsFull(ring) <=> RingQueue_Len(ring) = RingQueue_Cap(ring)
          /\ LockedRingQueue_IsFull(locked)
                <=> LockedRingQueue_Len(locked) = LockedRingQueue_Cap(locked)
          /\ RingQueue_Cap(ring) = Len(ring.data)
          /\ LockedRingQueue_Cap(locked) = Len(locked.data)
          /\ \A n \in 1..RingSize :
                /\ RingQueue_Cap(NewRingQueue(n)) = n
                /\ LockedRingQueue_Cap(NewLockedRingQueue(n)) = n)
    /\ [][/\ RingQueue_Cap(ring') = RingQueue_Cap(ring)
          /\ LockedRingQueue_Cap(locked') = LockedRingQueue_Cap(locked)]_<<ring, locked>>

\* The lock-free ring of two is full and wrapped while the mutex-guarded
\* one, popped once, is neither full nor empty.
C26_Witness ==
    /\ RingQueue_Cap(ring) = 2
    /\ ring.writePos = 3
    /\ RingQueue_IsFull(ring)
    /\ LockedRingQueue_Len(locked) = 1
    /\ out.op = "Pop"


\* C27: a Release of a handle that has already been released as often as it
\* had references (one plus its Retains) lowers the count by exactly 1, below
\* zero, and does nothing else: the releasing goroutine does not go on to the
\* cell exchange or to Put, and no pool counter or cache changes.
C27_SurplusReleaseOnlyDecrements ==
    [][\A h \in Handles :
          (hist'[h].decs = hist[h].decs + 1 /\ hist[h].decs >= 1 + hist[h].retains)
              => /\ bufs'[h].refCount = bufs[h].refCount - 1
                 /\ bufs'[h].refCount < 0
                 /\ bufs'[h].buf = bufs[h].buf
                 /\ hist'[h].puts = hist[h].puts
                 /\ pc' = pc
                 /\ UNCHANGED poolVars]_vars

\* Two surplus releases after the one that handed the slice to Put.
C27_Witness ==
    \E h \in Handles :
        /\ hist[h].decs = hist[h].retains + 3
        /\ bufs[h].refCount = -2
        /\ hist[h].puts = 1
        /\ totalPut = 1
        /\ \A t \in Threads : pc[t] = "idle"


\* Goroutine t is to invoke a closure that a Bytes call on handle h returned.
HasClosure(t, h) == pc[t] \in {"fn_release", "fn_noop"} /\ loc[t].h = h

AllGivenUp(h) ==
    /\ \A t \in Tasks : ~Holds(t, h) /\ ~HasClosure(t, h)
    /\ ~Releasing(h)
    /\ ~Viewing(h)

\* C29: a Bytes call whose caller holds an unreleased reference throughout
\* returns the handle's slice out of a non-empty cell, together with
\* b.Release; under every interleaving with the holders' Release calls the
\* slice is not handed to Put (and the cell is not emptied) while the closure
\* is still to be invoked; Put is invoked exactly once, after the last of the
\* releases, the closure's included.
C29_ViewOutlivesOtherReleases ==
    \A h \in Handles :
        /\ \A t \in Tasks :
              HasClosure(t, h)
                  => /\ pc[t] = "fn_release"
                     /\ loc[t].buf = hist[h].data
                     /\ bufs[h].buf = <<hist[h].data>>
                     /\ hist[h].puts = 0
                     /\ ~Releasing(h)
        /\ hist[h].puts <= 1
        /\ (hist[h].puts = 1 \/ Releasing(h)) => hist[h].decs = 1 + hist[h].retains
        /\ AllGivenUp(h) => hist[h].puts = 1

\* The initial reference has been released while the closure of the one
\* Bytes call, handed to another goroutine, is still to be invoked.
C29_Witness ==
    \E h \in Handles : \E u \in Tasks :
        /\ HasClosure(u, h)
        /\ hist[h].retains = 1
        /\ hist[h].decs = 1
        /\ \A t \in Tasks : ~Holds(t, h)
        /\ hist[h].data.len > 0
        /\ loc[u].buf.len > 0


\* C30 as stated: in every reachable state a non-empty cell has a count of
\* at least 0; the cell is emptied exactly on the transition of the count
\* from 1 to 0 (the count is 0 when the cell is emptied), and that transition
\* occurs at most once (never after an earlier one started or finished the
\* hand-off).
C30_CellAndCountAgree ==
    /\ [](\A h \in Handles : bufs[h].buf # <<>> => bufs[h].refCount >= 0)
    /\ [][\A h \in Handles :
            /\ (bufs[h].refCount = 1 /\ bufs'[h].refCount = 0)
                  => (hist[h].emptied = 0 /\ ~Releasing(h))
            /\ (bufs[h].buf # <<>> /\ bufs'[h].buf = <<>>)
                  => bufs[h].refCount = 0]_vars

\* C30: in every reachable state the cell of a handle has been emptied at
\* most once, and only by a Release whose own decrement took the count from
\* 1 to 0; while the cell is non-empty and no such Release is between its
\* decrement and the end of the call, the count is at least 1.
C30_CellEmptiedByAZeroingRelease ==
    /\ [](\A h \in Handles :
            /\ hist[h].emptied <= 1
            /\ (bufs[h].buf # <<>> /\ ~Releasing(h)) => bufs[h].refCount >= 1)
    /\ [][\A h \in Handles :
            /\ \A t \in Threads :
                  (pc[t] # "rel_swap" /\ pc'[t] = "rel_swap" /\ loc'[t].h = h)
                      => (bufs[h].refCount = 1 /\ bufs'[h].refCount = 0)
            /\ (bufs[h].buf # <<>> /\ bufs'[h].buf = <<>>)
                  => /\ hist[h].emptied = 0
                     /\ \E t \in Threads :
                           /\ pc[t] = "rel_swap" /\ loc[t].h = h
                           /\ pc'[t] = "rel_put"]_vars

\* A surplus Release has taken the count below zero while the Release that
\* brought it to zero has not exchanged the cell yet.
C30_Witness ==
    \E h \in Handles :
        /\ bufs[h].buf # <<>>
        /\ bufs[h].refCount < 0
        /\ \E t \in Threads : pc[t] = "rel_swap" /\ loc[t].h = h


\* C21: under every interleaving of concurrent Push, Pop, Peek, Clear and
\* Snapshot calls on the mutex-guarded ring each call takes effect
\* atomically: outside the critical sections of the write lock the ring holds
\* the bounded FIFO sequence of the calls in the order of their returns, every
\* Pop, Peek and Snapshot returns that sequence's answer, and every Snapshot
\* is a contiguous window of the push order, never a torn mixture.
C21_LockedRingIsLinearizable ==
    /\ \A t \in Tasks : rt[t].pc # "panicked"
    /\ mu.writer = 0 => LockedRingQueue_Bytes(locked) = fifo
    /\ out.op \in {"Pop", "Peek", "Snapshot"} => out.a = out.b
    /\ out.op = "Snapshot"
          => /\ \A k \in DOMAIN out.b : out.b[k] \in 1..npush
             /\ \A k \in 1..(Len(out.b) - 1) : out.b[k + 1] = out.b[k] + 1
    /\ \A t \in Tasks :
          rt[t].pc = "lbytes_copy"
              => \A k \in 1..rt[t].i : rt[t].res[k] = fifo[k]

\* While one goroutine is halfway through copying the snapshot of a full,
\* wrapped ring, a Peek of another has returned its oldest element.
C21_Witness ==
    \E t \in Tasks :
        /\ rt[t].pc = "lbytes_copy"
        /\ rt[t].i = 1
        /\ rt[t].res = <<2, 0>>
        /\ mu.readers = {t}
        /\ out.op = "Peek"
        /\ out.b = [item |-> 2, ok |-> TRUE]

\* The elements in the ring when the popping began.
DrainStart == LastN([k \in 1..npush |-> k], locked.size)

\* C24: goroutines popping concurrently from a mutex-guarded ring of L
\* elements, with no Push running: no element is returned twice, only
\* elements of the ring are returned, and when every goroutine has seen Pop
\* fail exactly L Pops have succeeded, every element has been returned and
\* the ring is empty.
C24_ConcurrentPopsDrainOnce ==
    /\ \A i, j \in DOMAIN popped : i # j => popped[i] # popped[j]
    /\ Range(popped) \subseteq Range(DrainStart)
    /\ (\A t \in Tasks : rt[t].pc = "done")
          => /\ Len(popped) = Len(DrainStart)
             /\ Range(popped) = Range(DrainStart)
             /\ LockedRingQueue_IsEmpty(locked)
             /\ LockedRingQueue_Bytes(locked) = <<>>

\* Both elements that survived three pushes into a ring of two have been
\* popped and every goroutine has seen Pop fail.
C24_Witness ==
    /\ \A t \in Tasks : rt[t].pc = "done"
    /\ npush = 3
    /\ Len(popped) = 2
    /\ Range(popped) = {2, 3}


\* s is a contiguous window of the pushed values in claim order.
IsWindow(s) ==
    \E a \in 1..(Len(pushed) + 1) : \E b \in 0..Len(pushed) : s = SubSeq(pushed, a, b)

\* C34: in the lock-free ring the cursor counts a claim before the claimed
\* value is stored: while a Push stands between its claim and its store the
\* cursor is already past its position and its slot does not hold its value,
\* and a Snapshot that read the cursor copies from such a slot whatever the
\* slot held before (a zero or an older value), not the value of the claim it
\* counted.
C34_SnapshotSeesUnstoredClaims ==
    /\ [](\A u \in Tasks :
            rt[u].pc = "store"
                => /\ rt[u].pos < ring.writePos
                   /\ ring.data[RingQueue_actualPos(ring, rt[u].pos) + 1] # rt[u].item)
    /\ [][\A t, u \in Tasks :
            (/\ rt[t].pc = "copy"
             /\ Len(rt'[t].res) = Len(rt[t].res) + 1
             /\ rt[u].pc = "store"
             /\ rt[u].pos < rt[t].cur
             /\ RingQueue_actualPos(ring, rt[u].pos)
                   = RingQueue_BytesPos(ring, rt[t].cur, rt[t].i))
                => /\ rt'[t].res[Len(rt'[t].res)] # rt[u].item
                   /\ rt'[t].res[Len(rt'[t].res)]
                         = ring.data[RingQueue_actualPos(ring, rt[u].pos) + 1]]_vars

\* A Snapshot has returned while the Push whose claim it counted has not
\* stored yet: it holds the initial zero and is no window of the pushed values.
C34_Witness ==
    \E t, u \in Tasks :
        /\ rt[t].pc = "idle"
        /\ rt[t].res # <<>>
        /\ 0 \in Range(rt[t].res)
        /\ ~IsWindow(rt[t].res)
        /\ rt[u].pc = "store"
        /\ rt[u].pos < Len(rt[t].res)

\* C35: a slice returned by Get carries no bytes written by an earlier holder:
\* Put clears what it caches.
C35_GetGivesNoEarlierBytes ==
    (call.op = "Get" /\ ret # NilBuf) => ret.id \notin written

\* C37: Put asks for no owner.  Every Put of a slice whose capacity is a class,
\* also of a slice that the cache holds already, raises totalPut by one and
\* adds one more copy of the slice to the class cache; a Get that takes a
\* slice cached twice leaves the other copy for the next Get.
C37_PutChecksNoOwner ==
    [][/\ (call'.op = "Put" /\ call'.buf.cap \in DOMAIN pools) =>
            LET c == call'.buf.cap
                v == [call'.buf EXCEPT !.len = c] IN
            /\ totalPut' = totalPut + 1
            /\ totalGet' = totalGet
            /\ CopiesIn(v, pools'[c]) = CopiesIn(v, pools[c]) + 1
       /\ (call'.op = "Get" /\ ret' # NilBuf /\ nextId' = nextId) =>
            \E c \in DOMAIN pools : \E v \in BagToSet(pools[c]) :
                /\ v.id = ret'.id
                /\ CopiesIn(v, pools'[c]) = CopiesIn(v, pools[c]) - 1
      ]_<<totalPut, pools, call.op, nextId, ret>>

\* One Get and two Puts of its slice put totalPut above totalGet, and the two
\* Gets made after them both return the storage of the first.
C37_Witness ==
    /\ Len(got) = 3
    /\ got[1].buf.len <= maxPoolSize
    /\ got[2].puts = 2 /\ got[2].gets = 1
    /\ got[2].buf.id = got[1].buf.id
    /\ got[3].buf.id = got[1].buf.id

\* C40: every slice in the cache of class c has length c and capacity c,
\* whoever made it and whatever length it had when it was put, so the
\* re-slicing buf[:length] of Get never goes beyond the capacity.
C40_CachedSlicesFillTheirClass ==
    /\ \A c \in DOMAIN pools : \A b \in BagToSet(pools[c]) : b.len = c /\ b.cap = c
    /\ ret # Panic
    /\ \A b \in held : b.len <= b.cap

\* A slice shorter than its capacity was put and sits in the cache at full length.
C40_Witness ==
    /\ call.op = "Put"
    /\ call.buf.cap \in DOMAIN pools
    /\ call.buf.len < call.buf.cap
    /\ \E b \in BagToSet(pools[call.buf.cap]) :
           b.id = call.buf.id /\ b.len = call.buf.cap

\* C38: inside and outside running Get and Put calls the per-class get-counters
\* add up to at least totalGet and the per-class put-counters to at least
\* totalPut; the surplus is the number of calls standing between their two
\* increments, so the sums equal the totals when no call is in progress; no
\* counter ever goes down.
RECURSIVE SumStats(_, _)
SumStats(S, ofGet) ==
    IF S = {} THEN 0
    ELSE LET c == CHOOSE x \in S : TRUE IN
         (IF ofGet THEN stats[c].Get ELSE stats[c].Put) + SumStats(S \ {c}, ofGet)

TasksAt(label) == Cardinality({t \in Tasks : TaskAt(t, label)})

C38_ClassCountersLeadTotals ==
    /\ [](/\ SumStats(Classes, TRUE) = totalGet + TasksAt("get_total")
          /\ SumStats(Classes, FALSE) = totalPut + TasksAt("put_total")
          /\ SumStats(Classes, TRUE) >= totalGet
          /\ SumStats(Classes, FALSE) >= totalPut
          /\ TasksQuiet => /\ SumStats(Classes, TRUE) = totalGet
                           /\ SumStats(Classes, FALSE) = totalPut)
    /\ [][/\ totalGet' >= totalGet
          /\ totalPut' >= totalPut
          /\ discardedCount' >= discardedCount
          /\ \A c \in Classes : /\ stats'[c].Get >= stats[c].Get
                                /\ stats'[c].Put >= stats[c].Put
         ]_<<totalGet, totalPut, discardedCount, stats>>

\* One Get stands between its two increments while a Put of another task
\* stands between its own: both sums are ahead of their totals.
C38_Witness ==
    /\ TasksAt("get_total") >= 1
    /\ TasksAt("put_total") >= 1
    /\ SumStats(Classes, TRUE) > totalGet
    /\ SumStats(Classes, FALSE) > totalPut

\* C39: discardedCount is the number of Get calls made with a length above the
\* largest class plus the number of Put calls made with a capacity above it.
\* A handle of GetBuffer(n), n above the largest class, adds 1 when it is
\* created and 1 when its last Release hands the slice to Put, 2 in all, and
\* adds nothing to totalGet and totalPut, which count the handles of pooled
\* lengths only.
BigHandles == {h \in Handles : hist[h].data.len > maxPoolSize}

PooledHandles == {h \in Handles : hist[h].data # NilBuf} \ BigHandles

PutsOf(H) == SumOver([h \in Handles |-> IF h \in H THEN hist[h].puts ELSE 0], Len(hist))

C39_DiscardedCountsOversizedCalls ==
    /\ discardedCount = Cardinality(BigHandles) + PutsOf(BigHandles)
    /\ totalGet = Cardinality(PooledHandles)
    /\ totalPut = PutsOf(PooledHandles)
    /\ \A h \in BigHandles : hist[h].puts <= 1

\* The only handle made so far is an oversized one and its last Release has
\* completed: discardedCount is 2, the totals are 0.
C39_Witness ==
    /\ Len(bufs) = 1
    /\ BigHandles = {1}
    /\ hist[1].puts = 1
    /\ bufs[1].buf = <<>>
    /\ \A t \in Threads : pc[t] = "idle"
    /\ discardedCount = 2
    /\ totalGet = 0
    /\ totalPut = 0

\* C36: with the pool used through GetBuffer, Retain, Release and Bytes only,
\* no backing array is at once in a class cache and in a non-empty cell of a
\* handle, none is in the caches more than once, and no two non-empty cells
\* hold the same one.
CachedSlices == UNION {BagToSet(pools[c]) : c \in DOMAIN pools}

CellFull(h) == bufs[h].buf # <<>> /\ bufs[h].buf[1] # NilBuf

C36_OneHomePerBuffer ==
    /\ \A h \in Handles : CellFull(h) =>
           \A b \in CachedSlices : b.id # bufs[h].buf[1].id
    /\ \A c \in DOMAIN pools : \A b \in BagToSet(pools[c]) :
           /\ CopiesIn(b, pools[c]) = 1
           /\ \A d \in DOMAIN pools : \A e \in BagToSet(pools[d]) :
                  e.id = b.id => (d = c /\ e = b)
    /\ \A h1, h2 \in Handles :
           (h1 # h2 /\ CellFull(h1) /\ CellFull(h2))
              => bufs[h1].buf[1].id # bufs[h2].buf[1].id

\* A backing array has gone from a released handle through the cache into a
\* second handle, and some handle was retained on the way.
C36_Witness ==
    /\ Retains >= 1
    /\ \E h1, h2 \in Handles :
           /\ h1 < h2
           /\ hist[h1].data.id = hist[h2].data.id
           /\ hist[h1].data # NilBuf
           /\ bufs[h1].buf = <<>>
           /\ CellFull(h2)

\* The state NewPools has just returned in.
JustBuilt == Built /\ call = NoCall

\* What NewPools builds for the classes, whatever the options.
ClassesAreFresh ==
    /\ DOMAIN pools = Range(config.sizes)
    /\ DOMAIN stats = Range(config.sizes)
    /\ \A c \in Range(config.sizes) :
           pools[c] = EmptyBag /\ stats[c] = [Get |-> 0, Put |-> 0]
    /\ totalGet = 0
    /\ totalPut = 0
    /\ discardedCount = 0

\* C31 as stated: NewPools panics exactly for the empty list; for every other
\* list it returns a pool with one empty cache and one zeroed counter pair per
\* class, all totals 0 and an empty statistics ring.
C31_BuiltFreshAndEmpty ==
    /\ config.state # "new" => (config.state = "panicked" <=> config.sizes = <<>>)
    /\ JustBuilt => ClassesAreFresh /\ RingQueuer_Bytes(recentLengths) = <<>>

\* C31, amended: the same, the statistics ring being empty unless the ring in
\* use is one a caller handed in with WithRingQueue, which is taken with
\* whatever it holds.
C31_BuiltFreshRingAsGiven ==
    /\ config.state # "new" => (config.state = "panicked" <=> config.sizes = <<>>)
    /\ JustBuilt =>
          /\ ClassesAreFresh
          /\ config.uses # "custom" => RingQueuer_Bytes(recentLengths) = <<>>
          /\ config.uses = "custom" => recentLengths \in CustomRings

\* A pool was built from a list naming one class twice, with a ring its
\* caller had pushed to.
C31_Witness ==
    /\ JustBuilt
    /\ Len(config.sizes) = 2
    /\ config.sizes[1] = config.sizes[2]
    /\ config.uses = "custom"
    /\ RingQueuer_Bytes(recentLengths) = <<EarlierValue>>

\* The ring the options of the NewPools call leave in p.recentLengths when
\* each is applied in its turn: that of the last option, else the default.
LastRing ==
    IF config.opts = <<>> THEN DefaultRing ELSE config.opts[Len(config.opts)]

CustomGiven == \E i \in DOMAIN config.opts : config.opts[i].uses = "custom"

\* C32 as stated: a pool built with WithRingQueue among its options uses the
\* caller's ring, whatever other options are given and in whatever order.
C32_CustomRingAlwaysWins ==
    (Built /\ CustomGiven)
       => config.uses = "custom" /\ recentLengths.size = CustomRingSize

\* C32, amended: the options are applied in the order given and each ring
\* option replaces the ring of the one before, so the pool uses the ring of
\* the last ring option: the caller's ring when WithRingQueue comes last (or
\* alone), a new ring of the backend when WithRingQueueType follows it.  The
\* ring in use receives every requested length and Stats reports its snapshot.
C32_LastRingOptionWins ==
    Built =>
       /\ config.uses = LastRing.uses
       /\ recentLengths.size = LastRing.q.size
       /\ RingQueuer_IsLocked(recentLengths) = RingQueuer_IsLocked(LastRing.q)
       /\ RingQueuer_Bytes(recentLengths)
             = LastN(RingQueuer_Bytes(LastRing.q) \o asked, recentLengths.size)
       /\ call.op = "Stats" => out.b = RingQueuer_Bytes(recentLengths)

\* WithRingQueue was followed by WithRingQueueType(MutexRingQueue): the pool
\* runs on a new mutex-guarded ring of the backend, which took the requested
\* length and is what Stats reports; the caller's ring was left out.
C32_Witness ==
    /\ Built
    /\ Len(config.opts) = 2
    /\ config.opts[1].uses = "custom"
    /\ config.opts[2].uses = "mutex"
    /\ config.uses = "mutex"
    /\ asked # <<>>
    /\ call.op = "Stats"
    /\ out.b = asked

\* C33: no call on the mutex-guarded ring waits or runs for ever: every call
\* made returns, the goroutine that returns holds the mutex no longer, the
\* mutex is held only by goroutines inside a call, and in every state some
\* goroutine can take a step.
HoldsMutex(t) == mu.writer = t \/ t \in mu.readers

Waits(t) == rt[t].pc \in LockedCalls

=============================================================================
